---- MODULE Spec2Model ----
(***************************************************************************)
(* Milli-Mala: multi-tenant Zendesk-to-archive gateway.                    *)
(*                                                                         *)
(* Strings whose bytes matter (header values, request bodies, URLs, brand  *)
(* ids) are sequences of one-character strings.  JavaScript values are     *)
(* tagged records so that undefined, null, numbers and strings can be told *)
(* apart the way the code tells them apart.                                *)
(***************************************************************************)
EXTENDS Integers, Sequences, FiniteSets, TLC

VARIABLES
    now,        \* Date.now(), in ms since the epoch
    input,      \* arguments of the function under examination (function-level specifications)
    output,     \* what that function returned
    deployment, \* which entry point serves, and what is bound to it
    store,      \* the tenant store: brand id -> stored tenant config
    req,        \* the HTTP request being served
    pc,         \* where the serving of req stands
    local,      \* the locals of the entry point and of the handler it awaits
    calls,      \* outbound calls made so far, oldest first
    audit,      \* puts the audit store has accepted, oldest first
    response    \* the HTTP response, once sent

fnVars == <<input, output>>
flowVars == <<deployment, store, req, pc, local, calls, audit, response>>
vars == <<now, input, output, deployment, store, req, pc, local, calls, audit, response>>

(***************************************************************************)
(* JavaScript values                                                       *)
(***************************************************************************)
Undefined == [t |-> "undefined"]
Null == [t |-> "null"]
NaN == [t |-> "nan"]
Str(s) == [t |-> "str", v |-> s]
Num(n) == [t |-> "num", v |-> n]

\* !v
Falsy(v) ==
    \/ v.t \in {"undefined", "null", "nan"}
    \/ v.t = "str" /\ Len(v.v) = 0
    \/ v.t = "num" /\ v.v = 0
    \/ v.t = "bool" /\ ~v.v

None == [t |-> "none"]

\* no request is being served (the function-level specifications)
FlowIdle ==
    /\ deployment = None /\ store = None /\ req = None /\ pc = "idle"
    /\ local = None /\ calls = <<>> /\ audit = <<>> /\ response = None

(***************************************************************************)
(* Characters and decimal numbers                                          *)
(***************************************************************************)
Digits == <<"0", "1", "2", "3", "4", "5", "6", "7", "8", "9">>

IsDigit(c) == \E i \in 1..10 : Digits[i] = c

DigitVal(c) == (CHOOSE i \in 1..10 : Digits[i] = c) - 1

AllDigits(s) == \A i \in 1..Len(s) : IsDigit(s[i])

RECURSIVE DecVal(_)
DecVal(s) ==
    IF Len(s) = 0 THEN 0
    ELSE DecVal(SubSeq(s, 1, Len(s) - 1)) * 10 + DigitVal(s[Len(s)])

RECURSIVE NatToChars(_)
NatToChars(n) ==
    IF n < 10 THEN <<Digits[n + 1]>>
    ELSE NatToChars(n \div 10) \o <<Digits[(n % 10) + 1]>>

\* padStart(width, '0')
RECURSIVE Pad(_, _)
Pad(s, width) == IF Len(s) >= width THEN s ELSE Pad(<<"0">> \o s, width)

Abs(x) == IF x < 0 THEN -x ELSE x

(***************************************************************************)
(* Date.parse and Date.prototype.toISOString on the simplified extended    *)
(* ISO-8601 form YYYY-MM-DDTHH:mm:ss[.sss]Z.  Every other text the model   *)
(* feeds to Date.parse ("", "not-a-date", an ISO text with a character     *)
(* replaced by a letter) is no date in the engine either.                  *)
(***************************************************************************)
MsPerSecond == 1 * 1000
MsPerMinute == 60 * MsPerSecond
MsPerHour == 60 * MsPerMinute
MsPerDay == 24 * MsPerHour

IsLeap(y) == (y % 4 = 0 /\ y % 100 # 0) \/ y % 400 = 0

DaysInMonth(y, m) ==
    IF m = 2 THEN (IF IsLeap(y) THEN 29 ELSE 28)
    ELSE IF m \in {4, 6, 9, 11} THEN 30 ELSE 31

RECURSIVE DaysBeforeMonth(_, _)
DaysBeforeMonth(y, m) ==
    IF m = 1 THEN 0 ELSE DaysBeforeMonth(y, m - 1) + DaysInMonth(y, m - 1)

RECURSIVE DaysBeforeYear(_)
DaysBeforeYear(y) ==
    IF y = 1970 THEN 0
    ELSE DaysBeforeYear(y - 1) + (IF IsLeap(y - 1) THEN 366 ELSE 365)

IsoShape(s) ==
    /\ Len(s) \in {20, 24}
    /\ AllDigits(SubSeq(s, 1, 4)) /\ s[5] = "-"
    /\ AllDigits(SubSeq(s, 6, 7)) /\ s[8] = "-"
    /\ AllDigits(SubSeq(s, 9, 10)) /\ s[11] = "T"
    /\ AllDigits(SubSeq(s, 12, 13)) /\ s[14] = ":"
    /\ AllDigits(SubSeq(s, 15, 16)) /\ s[17] = ":"
    /\ AllDigits(SubSeq(s, 18, 19))
    /\ IF Len(s) = 20 THEN s[20] = "Z"
       ELSE s[20] = "." /\ AllDigits(SubSeq(s, 21, 23)) /\ s[24] = "Z"

\* Date.parse(v): a number of ms, or NaN
DateParse(v) ==
    IF v.t # "str" THEN NaN
    ELSE IF ~IsoShape(v.v) THEN NaN
    ELSE LET s == v.v
             y == DecVal(SubSeq(s, 1, 4))
             mo == DecVal(SubSeq(s, 6, 7))
             d == DecVal(SubSeq(s, 9, 10))
             h == DecVal(SubSeq(s, 12, 13))
             mi == DecVal(SubSeq(s, 15, 16))
             se == DecVal(SubSeq(s, 18, 19))
             ms == IF Len(s) = 24 THEN DecVal(SubSeq(s, 21, 23)) ELSE 0
         IN  IF y < 1970 \/ mo < 1 \/ mo > 12 \/ d < 1 \/ d > DaysInMonth(y, mo)
                \/ h > 23 \/ mi > 59 \/ se > 59
             THEN NaN
             ELSE Num((DaysBeforeYear(y) + DaysBeforeMonth(y, mo) + d - 1) * MsPerDay
                      + h * MsPerHour + mi * MsPerMinute + se * MsPerSecond + ms)

\* new Date(ms).toISOString(), for the instants of January 1970 (all that 32-bit ms reach)
ToISOString(ms) ==
    LET d == ms \div MsPerDay
        r == ms % MsPerDay
    IN  <<"1", "9", "7", "0", "-", "0", "1", "-">> \o Pad(NatToChars(d + 1), 2) \o <<"T">>
        \o Pad(NatToChars(r \div MsPerHour), 2) \o <<":">>
        \o Pad(NatToChars((r % MsPerHour) \div MsPerMinute), 2) \o <<":">>
        \o Pad(NatToChars((r % MsPerMinute) \div MsPerSecond), 2) \o <<".">>
        \o Pad(NatToChars(r % MsPerSecond), 3) \o <<"Z">>

(***************************************************************************)
(* node:crypto.  A digest is modelled collision-free: a byte string of the *)
(* digest's fixed length that is determined by, and determines, what was   *)
(* hashed.  Its first symbol carries the identity, the rest is filler.     *)
(* A symbol of a signature text or of a digest is a tuple; <<c>> is the    *)
(* ordinary symbol c.                                                      *)
(***************************************************************************)
Sha256Bytes == 32          \* length of a SHA-256 digest
Sha256Base64Len == 44      \* length of its base64 text

Filler(n) == [i \in 1..n |-> <<"A">>]

\* createHmac('sha256', secret).update(msg).digest('base64')
HmacSha256Base64(secret, msg) ==
    <<<<"hmac-sha256", secret, msg>>>> \o Filler(Sha256Base64Len - 2) \o <<<<"=">>>>

\* createHash('sha256').update(text).digest()
Sha256(text) == <<<<"sha256", text>>>> \o Filler(Sha256Bytes - 1)

\* timingSafeEqual(a, b): throws RangeError when the byte lengths differ
timingSafeEqual(a, b) ==
    IF Len(a) # Len(b) THEN [threw |-> TRUE, value |-> FALSE]
    ELSE [threw |-> FALSE, value |-> (a = b)]

(***************************************************************************)
(* webhook.ts: signature and freshness                                     *)
(***************************************************************************)
WEBHOOK_TIMESTAMP_TOLERANCE_MS == 5 * 60 * 1000

\* (mutant) the HMAC taken over the body alone
verifyWebhookSignatureTrace_BodyOnly(rawBody, timestamp, signature, secret) ==
    IF Falsy(timestamp) \/ Falsy(signature) \/ Falsy(secret)
    THEN [value |-> FALSE, path |-> "missing", compared |-> <<>>]
    ELSE LET sig == HmacSha256Base64(secret.v, rawBody)
             r == timingSafeEqual(signature.v, sig)
         IN  [value |-> r.value, path |-> IF r.threw THEN "threw" ELSE "compared",
              compared |-> <<Len(signature.v), Len(sig)>>]

\* verifyWebhookSignature with the path it took and the lengths it compared
verifyWebhookSignatureTrace(rawBody, timestamp, signature, secret) ==
    IF Falsy(timestamp) \/ Falsy(signature) \/ Falsy(secret)
    THEN [value |-> FALSE, path |-> "missing", compared |-> <<>>]
    ELSE LET sig == HmacSha256Base64(secret.v, timestamp.v \o rawBody)
             r == timingSafeEqual(signature.v, sig)
         IN  IF r.threw
             THEN [value |-> FALSE, path |-> "threw", compared |-> <<Len(signature.v), Len(sig)>>]
             ELSE [value |-> r.value, path |-> "compared", compared |-> <<Len(signature.v), Len(sig)>>]

verifyWebhookSignature(rawBody, timestamp, signature, secret) ==
    verifyWebhookSignatureTrace(rawBody, timestamp, signature, secret).value

\* (mutant) an exclusive window
isTimestampFresh_Exclusive(timestamp, toleranceMs) ==
    LET ts == DateParse(timestamp)
    IN  IF ts.t = "nan" THEN FALSE
        ELSE Abs(now - ts.v) < toleranceMs

isTimestampFresh(timestamp, toleranceMs) ==
    LET ts == DateParse(timestamp)
    IN  IF ts.t = "nan" THEN FALSE
        ELSE Abs(now - ts.v) <= toleranceMs

(***************************************************************************)
(* attachments.ts: API key; index.ts: audit bearer token                   *)
(***************************************************************************)
verifyApiKeyTrace(provided, key) ==
    IF Falsy(key) THEN [value |-> FALSE, path |-> "missing", compared |-> <<>>]
    ELSE IF Falsy(provided) THEN [value |-> FALSE, path |-> "missing", compared |-> <<>>]
    ELSE LET a == Sha256(provided.v)
             b == Sha256(key.v)
             r == timingSafeEqual(a, b)
         IN  IF r.threw
             THEN [value |-> FALSE, path |-> "threw", compared |-> <<Len(a), Len(b)>>]
             ELSE [value |-> r.value, path |-> "compared", compared |-> <<Len(a), Len(b)>>]

\* verifyApiKey that accepts the API key of any stored tenant
verifyApiKey_AnyTenant(headers, tenantConfig) ==
    \E b \in DOMAIN store :
        verifyApiKeyTrace(headers.x_api_key, store[b].malaskra.apiKey).value

verifyApiKey(headers, tenantConfig) ==
    verifyApiKeyTrace(headers.x_api_key, tenantConfig.malaskra.apiKey).value

\* the bearer check of handleAuditHttp; auditSecret is a string ('' when unset)
auditAuthTrace(authHeader, auditSecret) ==
    LET expectedAuth == "Bearer " \o auditSecret
    IN  IF Falsy(authHeader)
        THEN [value |-> FALSE, path |-> "missing", compared |-> <<>>]
        ELSE LET a == Sha256(authHeader.v)
                 b == Sha256(expectedAuth)
                 r == timingSafeEqual(a, b)
             IN  IF r.threw
                 THEN [value |-> FALSE, path |-> "threw", compared |-> <<Len(a), Len(b)>>]
                 ELSE [value |-> r.value, path |-> "compared", compared |-> <<Len(a), Len(b)>>]

\* if (!auditSecret || !authValid) return 401
auditAuthorized(authHeader, auditSecret) ==
    ~(Len(auditSecret) = 0 \/ ~auditAuthTrace(authHeader, auditSecret).value)

(***************************************************************************)
(* Text helpers                                                            *)
(***************************************************************************)
LowerLetters == <<"a", "b", "c", "d", "e", "f", "g", "h", "i", "j", "k", "l", "m", "n", "o", "p", "q", "r", "s", "t", "u", "v", "w", "x", "y", "z">>
UpperLetters == <<"A", "B", "C", "D", "E", "F", "G", "H", "I", "J", "K", "L", "M", "N", "O", "P", "Q", "R", "S", "T", "U", "V", "W", "X", "Y", "Z">>

IsLower(c) == \E i \in 1..26 : LowerLetters[i] = c
IsUpper(c) == \E i \in 1..26 : UpperLetters[i] = c
IsAlnum(c) == IsLower(c) \/ IsUpper(c) \/ IsDigit(c)

ToLowerChar(c) ==
    IF IsUpper(c) THEN LowerLetters[CHOOSE i \in 1..26 : UpperLetters[i] = c] ELSE c

ToLower(s) == [i \in 1..Len(s) |-> ToLowerChar(s[i])]

StartsWith(s, prefix) ==
    Len(s) >= Len(prefix) /\ SubSeq(s, 1, Len(prefix)) = prefix

\* position of the first element of s that is in set, or 0
FirstIn(s, set) ==
    IF \E i \in 1..Len(s) : s[i] \in set
    THEN CHOOSE i \in 1..Len(s) : s[i] \in set /\ \A j \in 1..(i - 1) : s[j] \notin set
    ELSE 0

\* position of the last element of s that is in set, or 0
LastIn(s, set) ==
    IF \E i \in 1..Len(s) : s[i] \in set
    THEN CHOOSE i \in 1..Len(s) : s[i] \in set /\ \A j \in (i + 1)..Len(s) : s[j] \notin set
    ELSE 0

\* s.split(sep)
RECURSIVE Split(_, _)
Split(s, sep) ==
    LET i == FirstIn(s, {sep})
    IN  IF i = 0 THEN <<s>>
        ELSE <<SubSeq(s, 1, i - 1)>> \o Split(SubSeq(s, i + 1, Len(s)), sep)

\* parts.join(sep)
RECURSIVE Join(_, _)
Join(parts, sep) ==
    IF Len(parts) = 0 THEN <<>>
    ELSE IF Len(parts) = 1 THEN parts[1]
    ELSE parts[1] \o <<sep>> \o Join(Tail(parts), sep)

(***************************************************************************)
(* JavaScript conversions and JSON.  Numbers are integers, Num(n), or       *)
(* decimal fractions, Float(i, f) for i.f with f not all zeros.  The JSON   *)
(* texts are objects of string keys and scalar values without white space  *)
(* or escapes, which is what JSON.stringify writes for the bodies sent.     *)
(***************************************************************************)
Float(i, f) == [t |-> "float", int |-> i, frac |-> f]
Obj(entries) == [t |-> "obj", entries |-> entries]

IntText(n) == IF n < 0 THEN <<"-">> \o NatToChars(0 - n) ELSE NatToChars(n)

\* String(v)
ToStringJs(v) ==
    CASE v.t = "str" -> v.v
      [] v.t = "num" -> IntText(v.v)
      [] v.t = "float" -> IntText(v.int) \o <<".">> \o v.frac
      [] v.t = "null" -> <<"n", "u", "l", "l">>
      [] v.t = "nan" -> <<"N", "a", "N">>
      [] v.t = "undefined" -> <<"u", "n", "d", "e", "f", "i", "n", "e", "d">>
      [] v.t = "obj" -> <<"[", "o", "b", "j", "e", "c", "t", " ", "O", "b", "j", "e", "c", "t", "]">>

\* the decimal literal s denotes: -?digits(.digits)?
DecimalLiteral(s) ==
    LET neg == Len(s) > 0 /\ s[1] = "-"
        body == IF neg THEN SubSeq(s, 2, Len(s)) ELSE s
        dot == FirstIn(body, {"."})
        ip == IF dot = 0 THEN body ELSE SubSeq(body, 1, dot - 1)
        fp == IF dot = 0 THEN <<>> ELSE SubSeq(body, dot + 1, Len(body))
    IN  IF Len(ip) = 0 \/ ~AllDigits(ip) \/ ~AllDigits(fp) \/ (dot # 0 /\ Len(fp) = 0)
        THEN NaN
        ELSE IF \A i \in 1..Len(fp) : fp[i] = "0"
        THEN Num(IF neg THEN 0 - DecVal(ip) ELSE DecVal(ip))
        ELSE Float(IF neg THEN 0 - DecVal(ip) ELSE DecVal(ip), fp)

\* Number(v); a string is a decimal literal, empty, or not a number
ToNumberJs(v) ==
    CASE v.t = "num" -> v
      [] v.t = "float" -> v
      [] v.t = "null" -> Num(0)
      [] v.t = "str" -> IF Len(v.v) = 0 THEN Num(0) ELSE DecimalLiteral(v.v)
      [] OTHER -> NaN

\* Number.isInteger(n)
IsInteger(n) == n.t = "num"

\* obj[key] on own properties; a later duplicate key wins
Get(obj, key) ==
    LET at == {i \in 1..Len(obj.entries) : obj.entries[i].key = key}
    IN  IF at = {} THEN Undefined
        ELSE obj.entries[CHOOSE i \in at : \A j \in at : j <= i].value

Quote(text) == <<"\"">> \o text \o <<"\"">>

JsonScalarText(v) ==
    IF v.t = "str" THEN Quote(v.v) ELSE ToStringJs(v)

\* JSON.stringify of a flat object; undefined members are left out
RECURSIVE JsonMembersText(_)
JsonMembersText(entries) ==
    IF Len(entries) = 0 THEN <<>>
    ELSE LET e == entries[1]
             rest == JsonMembersText(Tail(entries))
         IN  IF e.value.t = "undefined" THEN rest
             ELSE Quote(e.key) \o <<":">> \o JsonScalarText(e.value)
                  \o (IF Len(rest) = 0 THEN <<>> ELSE <<",">> \o rest)

JsonStringify(obj) == <<"{">> \o JsonMembersText(obj.entries) \o <<"}">>

SyntaxError == [ok |-> FALSE, value |-> Undefined, next |-> 0]

\* the JSON string starting at s[i]
JsonStringAt(s, i) ==
    IF i > Len(s) \/ s[i] # "\"" THEN SyntaxError
    ELSE LET close == {j \in (i + 1)..Len(s) : s[j] = "\""}
         IN  IF close = {} THEN SyntaxError
             ELSE LET j == CHOOSE j \in close : \A k \in close : j <= k
                  IN  IF \E k \in (i + 1)..(j - 1) : s[k] = "\\" THEN SyntaxError
                      ELSE [ok |-> TRUE, value |-> Str(SubSeq(s, i + 1, j - 1)), next |-> j + 1]

\* the JSON number starting at s[i]: the longest run of -, digits and .
JsonNumberAt(s, i) ==
    LET stop == {j \in i..Len(s) : ~(IsDigit(s[j]) \/ s[j] \in {"-", "."})}
        end == IF stop = {} THEN Len(s) ELSE (CHOOSE j \in stop : \A k \in stop : j <= k) - 1
        lit == SubSeq(s, i, end)
        digits == IF Len(lit) > 0 /\ lit[1] = "-" THEN Tail(lit) ELSE lit
        n == DecimalLiteral(lit)
    IN  IF end < i \/ n.t = "nan" THEN SyntaxError
        ELSE IF Len(digits) > 1 /\ digits[1] = "0" /\ digits[2] # "." THEN SyntaxError
        ELSE [ok |-> TRUE, value |-> n, next |-> end + 1]

LiteralAt(s, i, word) == i + Len(word) - 1 <= Len(s) /\ SubSeq(s, i, i + Len(word) - 1) = word

JsonScalarAt(s, i) ==
    IF i > Len(s) THEN SyntaxError
    ELSE IF s[i] = "\"" THEN JsonStringAt(s, i)
    ELSE IF LiteralAt(s, i, <<"n", "u", "l", "l">>)
    THEN [ok |-> TRUE, value |-> Null, next |-> i + 4]
    ELSE JsonNumberAt(s, i)

\* the members of an object from s[i] on, up to the closing brace that ends the text
RECURSIVE JsonMembersAt(_, _, _)
JsonMembersAt(s, i, acc) ==
    LET k == JsonStringAt(s, i)
    IN  IF ~k.ok \/ k.next > Len(s) \/ s[k.next] # ":" THEN SyntaxError
        ELSE LET v == JsonScalarAt(s, k.next + 1)
                 entries == Append(acc, [key |-> k.value.v, value |-> v.value])
             IN  IF ~v.ok \/ v.next > Len(s) THEN SyntaxError
                 ELSE IF s[v.next] = "," THEN JsonMembersAt(s, v.next + 1, entries)
                 ELSE IF s[v.next] = "}" /\ v.next = Len(s)
                 THEN [ok |-> TRUE, value |-> Obj(entries), next |-> v.next + 1]
                 ELSE SyntaxError

\* JSON.parse(text): [ok |-> FALSE] stands for the SyntaxError thrown
JsonParse(text) ==
    IF Len(text) >= 2 /\ text[1] = "{"
    THEN IF text = <<"{", "}">> THEN [ok |-> TRUE, value |-> Obj(<<>>), next |-> 3]
         ELSE JsonMembersAt(text, 2, <<>>)
    ELSE LET v == JsonScalarAt(text, 1)
         IN  IF v.ok /\ v.next = Len(text) + 1 THEN v ELSE SyntaxError

(***************************************************************************)
(* new URL(text): scheme, authority and host of the WHATWG URL parser, for *)
(* texts of the form scheme:[//][userinfo@]host[:port][/path].  The host   *)
(* is lower-cased; a host whose last label is a number goes through the    *)
(* IPv4 parser (decimal, octal and hexadecimal parts, one to four of them) *)
(* and is serialised as a dotted quad; a bracketed host is an IPv6 literal *)
(* and stays bracketed.                                                    *)
(***************************************************************************)
SpecialSchemes == {<<"h", "t", "t", "p", "s">>, <<"h", "t", "t", "p">>, <<"f", "t", "p">>, <<"w", "s">>, <<"w", "s", "s">>}

ForbiddenHostChars == {" ", "#", "%", "/", ":", "<", ">", "?", "@", "[", "\\", "]", "^", "|"}

HexDigits == <<"0", "1", "2", "3", "4", "5", "6", "7", "8", "9", "a", "b", "c", "d", "e", "f">>

IsHexDigit(c) == \E i \in 1..16 : HexDigits[i] = c

HexVal(c) == (CHOOSE i \in 1..16 : HexDigits[i] = c) - 1

RECURSIVE RadixVal(_, _)
RadixVal(s, radix) ==
    IF Len(s) = 0 THEN 0
    ELSE RadixVal(SubSeq(s, 1, Len(s) - 1), radix) * radix + HexVal(s[Len(s)])

\* the IPv4 number parser: a value, or -1 for failure
Ipv4Number(part) ==
    IF Len(part) = 0 THEN -1
    ELSE IF Len(part) >= 2 /\ part[1] = "0" /\ part[2] = "x"
    THEN (IF \A i \in 3..Len(part) : IsHexDigit(part[i])
          THEN RadixVal(SubSeq(part, 3, Len(part)), 16) ELSE -1)
    ELSE IF Len(part) >= 2 /\ part[1] = "0"
    THEN (IF \A i \in 2..Len(part) : IsDigit(part[i]) /\ DigitVal(part[i]) < 8
          THEN RadixVal(SubSeq(part, 2, Len(part)), 8) ELSE -1)
    ELSE IF AllDigits(part) THEN RadixVal(part, 10) ELSE -1

\* the parts of a host between dots, a trailing empty one dropped
HostParts(host) ==
    IF Len(Split(host, ".")) > 1 /\ Len(Split(host, ".")[Len(Split(host, "."))]) = 0
    THEN SubSeq(Split(host, "."), 1, Len(Split(host, ".")) - 1)
    ELSE Split(host, ".")

IsNumberLabel(last) ==
    /\ Len(last) > 0
    /\ \/ AllDigits(last)
       \/ Len(last) >= 2 /\ last[1] = "0" /\ last[2] = "x"
          /\ \A i \in 3..Len(last) : IsHexDigit(last[i])

LastOf(parts) == parts[Len(parts)]

\* the "ends in a number" checker
EndsInNumber(host) == IsNumberLabel(LastOf(HostParts(host)))

RECURSIVE Pow256(_)
Pow256(n) == IF n = 0 THEN 1 ELSE 256 * Pow256(n - 1)

Ipv4Numbers(parts) == [i \in 1..Len(parts) |-> Ipv4Number(parts[i])]

\* the octets of the numbers of the parts, or <<>> for failure; the last number
\* fills the octets the others leave (every 32-bit value fits four)
Ipv4FromNumbers(nums, n) ==
    IF n > 4 \/ \E i \in 1..n : nums[i] < 0 THEN <<>>
    ELSE IF \E i \in 1..(n - 1) : nums[i] > 255 THEN <<>>
    ELSE IF n > 1 /\ nums[n] >= Pow256(5 - n) THEN <<>>
    ELSE [i \in 1..4 |-> IF i < n THEN nums[i]
                         ELSE (nums[n] \div Pow256(4 - i)) % 256]

\* the IPv4 parser: the four octets, or <<>> for failure
Ipv4Parse(host) == Ipv4FromNumbers(Ipv4Numbers(HostParts(host)), Len(HostParts(host)))

Ipv4Serialize(octets) ==
    NatToChars(octets[1]) \o <<".">> \o NatToChars(octets[2]) \o <<".">>
    \o NatToChars(octets[3]) \o <<".">> \o NatToChars(octets[4])

InvalidUrl == [ok |-> FALSE]

HostFromOctets(octets) ==
    IF octets = <<>> THEN InvalidUrl ELSE [ok |-> TRUE, hostname |-> Ipv4Serialize(octets)]

\* the host parser on a host that is no IPv6 literal, lower-cased
DomainToHost(host) ==
    IF \E i \in 1..Len(host) : host[i] \in ForbiddenHostChars THEN InvalidUrl
    ELSE IF EndsInNumber(host) THEN HostFromOctets(Ipv4Parse(host))
    ELSE [ok |-> TRUE, hostname |-> host]

\* the host parser on the authority's host text
HostParse(rawHost) ==
    IF Len(rawHost) = 0 THEN InvalidUrl
    ELSE IF rawHost[1] = "["
    THEN (IF rawHost[Len(rawHost)] = "]" /\ Len(rawHost) > 3
             /\ \A i \in 2..(Len(rawHost) - 1) :
                    IsHexDigit(ToLowerChar(rawHost[i])) \/ rawHost[i] \in {":", "."}
          THEN [ok |-> TRUE, hostname |-> ToLower(rawHost)]
          ELSE InvalidUrl)
    ELSE DomainToHost(ToLower(rawHost))

\* s before position i, all of s when i = 0; s after position i
CutBefore(s, i) == IF i = 0 THEN s ELSE SubSeq(s, 1, i - 1)
CutAfter(s, i) == SubSeq(s, i + 1, Len(s))

\* a special scheme skips every slash before the authority
SkipSlashes(rest) ==
    IF \E i \in 1..Len(rest) : rest[i] \notin {"/", "\\"}
    THEN SubSeq(rest, CHOOSE i \in 1..Len(rest) :
                          rest[i] \notin {"/", "\\"}
                          /\ \A j \in 1..(i - 1) : rest[j] \in {"/", "\\"},
                Len(rest))
    ELSE <<>>

\* the authority ends at the path, query or fragment; what follows its last @
AuthorityOf(rest) == CutBefore(rest, FirstIn(rest, {"/", "\\", "?", "#"}))
HostPortOf(authority) == CutAfter(authority, LastIn(authority, {"@"}))

\* the position of the colon that sets the port off, or 0
PortColon(hostport) ==
    IF Len(hostport) > 0 /\ hostport[1] = "["
    THEN (IF hostport[Len(hostport)] = "]" THEN 0 ELSE LastIn(hostport, {":"}))
    ELSE FirstIn(hostport, {":"})

UrlResult(scheme, port, host) ==
    IF ~AllDigits(port) \/ ~host.ok THEN InvalidUrl
    ELSE [ok |-> TRUE, protocol |-> scheme \o <<":">>, hostname |-> host.hostname]

UrlFromHostPort(scheme, hostport, portColon) ==
    UrlResult(scheme, IF portColon = 0 THEN <<>> ELSE CutAfter(hostport, portColon),
              HostParse(CutBefore(hostport, portColon)))

UrlFromAuthority(scheme, hostport) == UrlFromHostPort(scheme, hostport, PortColon(hostport))

UrlFromScheme(scheme, rest) ==
    IF scheme \notin SpecialSchemes
    THEN [ok |-> TRUE, protocol |-> scheme \o <<":">>, hostname |-> <<>>]
    ELSE UrlFromAuthority(scheme, HostPortOf(AuthorityOf(SkipSlashes(rest))))

ParseUrlAt(text, colon) ==
    IF colon < 2 \/ ~(IsLower(ToLowerChar(text[1])))
       \/ \E i \in 2..(colon - 1) : ~(IsAlnum(text[i]) \/ text[i] \in {"+", "-", "."})
    THEN InvalidUrl
    ELSE UrlFromScheme(ToLower(SubSeq(text, 1, colon - 1)), CutAfter(text, colon))

\* new URL(text): [ok, protocol, hostname], or InvalidUrl where the constructor throws
ParseUrl(text) == ParseUrlAt(text, FirstIn(text, {":"}))

(***************************************************************************)
(* tenant.ts.  A tenant config is a JavaScript object: a section that is   *)
(* present has t = "obj", an absent one is Undefined.  The endpoints map   *)
(* keeps its entries in insertion order, as Object.entries yields them.    *)
(* Thrown errors are records naming the message template and its data.     *)
(***************************************************************************)
Returned(v) == [threw |-> FALSE, value |-> v]
Thrown(e) == [threw |-> TRUE, error |-> e]

\* o?.f
Opt(o, f) == IF o.t = "obj" THEN o[f] ELSE Undefined

\* SUBDOMAIN_PATTERN = /^[a-z0-9][a-z0-9-]*$/i
SUBDOMAIN_PATTERN(s) ==
    /\ Len(s) >= 1
    /\ IsAlnum(s[1])
    /\ \A i \in 2..Len(s) : IsAlnum(s[i]) \/ s[i] = "-"

NumPrivateIpPatterns == 11

\* PRIVATE_IP_PATTERNS[i - 1].test(h)
PRIVATE_IP_PATTERNS(i, h) ==
    CASE i = 1 -> StartsWith(h, <<"1", "2", "7", ".">>)
      [] i = 2 -> StartsWith(h, <<"1", "0", ".">>)
      [] i = 3 -> /\ StartsWith(h, <<"1", "7", "2", ".">>)
                  /\ Len(h) >= 7
                  /\ \/ h[5] = "1" /\ h[6] \in {"6", "7", "8", "9"}
                     \/ h[5] = "2" /\ IsDigit(h[6])
                     \/ h[5] = "3" /\ h[6] \in {"0", "1"}
                  /\ h[7] = "."
      [] i = 4 -> StartsWith(h, <<"1", "9", "2", ".", "1", "6", "8", ".">>)
      [] i = 5 -> StartsWith(h, <<"1", "6", "9", ".", "2", "5", "4", ".">>)
      [] i = 6 -> StartsWith(h, <<"0", ".">>)
      [] i = 7 -> h = <<":", ":", "1">>
      [] i = 8 -> StartsWith(h, <<"f", "c", "0", "0", ":">>)
      [] i = 9 -> StartsWith(h, <<"f", "e", "8", "0", ":">>)
      [] i = 10 -> StartsWith(h, <<"[">>)
      [] i = 11 -> ToLower(h) = <<"l", "o", "c", "a", "l", "h", "o", "s", "t">>

HttpsProtocol == <<"h", "t", "t", "p", "s", ":">>

\* the subject of a tenant error message: config.name || config.brand_id
ConfigSubject(config) == IF Falsy(config.name) THEN config.brand_id ELSE config.name

If(cond, field) == IF cond THEN <<field>> ELSE <<>>

\* the missing list of validate(name, ep): type and baseUrl, then the credentials of the type
EndpointMissing(ep) ==
    If(Falsy(ep.type), "type") \o If(Falsy(ep.baseUrl), "baseUrl")
    \o (IF ep.type = Str("onesystems") THEN If(Falsy(ep.appKey), "appKey")
        ELSE IF ep.type = Str("gopro")
        THEN If(Falsy(ep.username), "username") \o If(Falsy(ep.password), "password")
        ELSE <<>>)

\* validate(name, ep) once new URL(ep.baseUrl) has been tried: url is its outcome
validateParsed(name, ep, url) ==
    IF ~Falsy(ep.baseUrl) /\ ~url.ok
    \* Endpoint "${name}": invalid baseUrl "${ep.baseUrl}"
    THEN Thrown([code |-> "endpoint_invalid_baseUrl", endpoint |-> name,
                 baseUrl |-> ep.baseUrl.v])
    ELSE IF ~Falsy(ep.baseUrl) /\ url.protocol # HttpsProtocol
    \* Endpoint "${name}": baseUrl must use HTTPS (got "${url.protocol}")
    THEN Thrown([code |-> "endpoint_https", endpoint |-> name, protocol |-> url.protocol])
    ELSE IF ~Falsy(ep.baseUrl)
            /\ \E i \in 1..NumPrivateIpPatterns : PRIVATE_IP_PATTERNS(i, url.hostname)
    \* Endpoint "${name}": baseUrl must not point to a private/reserved address
    THEN Thrown([code |-> "endpoint_private", endpoint |-> name])
    ELSE IF ep.type # Str("onesystems") /\ ep.type # Str("gopro") /\ ~Falsy(ep.type)
    \* Endpoint "${name}": unknown type "${ep.type}". Must be "onesystems" or "gopro".
    THEN Thrown([code |-> "endpoint_unknown_type", endpoint |-> name, type |-> ep.type])
    ELSE IF Len(EndpointMissing(ep)) > 0
    \* Endpoint "${name}": missing ${missing.join(', ')}
    THEN Thrown([code |-> "endpoint_missing", endpoint |-> name, fields |-> EndpointMissing(ep)])
    ELSE Returned(Undefined)

validateEndpoint(name, ep) ==
    validateParsed(name, ep, IF Falsy(ep.baseUrl) THEN InvalidUrl ELSE ParseUrl(ep.baseUrl.v))

\* for (const [name, ep] of Object.entries(endpoints)) validate(name, ep)
FirstThrown(results) ==
    IF \E i \in 1..Len(results) : results[i].threw
    THEN results[CHOOSE i \in 1..Len(results) :
                    results[i].threw /\ \A j \in 1..(i - 1) : ~results[j].threw]
    ELSE Returned(Undefined)

validateTenantConfig(config) ==
    LET subdomain == Opt(config.zendesk, "subdomain")
        missing ==
            If(Falsy(config.brand_id), "brand_id")
            \o If(Falsy(config.name), "name")
            \o If(Falsy(subdomain), "zendesk.subdomain")
            \o If(Falsy(Opt(config.zendesk, "email")), "zendesk.email")
            \o If(Falsy(Opt(config.zendesk, "apiToken")), "zendesk.apiToken")
            \o If(Falsy(Opt(config.zendesk, "webhookSecret")), "zendesk.webhookSecret")
            \o If(Falsy(Opt(config.malaskra, "apiKey")), "malaskra.apiKey")
            \o (IF config.pdf.t # "obj" THEN <<"pdf">>
                ELSE If(Falsy(config.pdf.companyName), "pdf.companyName")
                     \o If(config.pdf.locale.t \notin {"undefined", "str"},
                           "pdf.locale (must be a string)"))
            \o If(config.endpoints.t # "obj" \/ Len(Opt(config.endpoints, "entries")) = 0,
                  "endpoints (at least one required)")
    IN  IF ~Falsy(subdomain) /\ ~SUBDOMAIN_PATTERN(subdomain.v)
        \* Invalid tenant config for "...": zendesk.subdomain contains invalid characters
        THEN Thrown([code |-> "invalid_subdomain", subject |-> ConfigSubject(config)])
        ELSE IF Len(missing) > 0
        \* Invalid tenant config for "...": missing ${missing.join(', ')}
        THEN Thrown([code |-> "missing", subject |-> ConfigSubject(config), fields |-> missing])
        ELSE FirstThrown([i \in 1..Len(config.endpoints.entries) |->
                            validateEndpoint(config.endpoints.entries[i].key,
                                             config.endpoints.entries[i].value)])

\* src/tenant.ts: the same checks without the baseUrl, subdomain and pdf ones
validateEndpoint_src(name, ep) ==
    IF ep.type # Str("onesystems") /\ ep.type # Str("gopro") /\ ~Falsy(ep.type)
    THEN Thrown([code |-> "endpoint_unknown_type", endpoint |-> name, type |-> ep.type])
    ELSE IF Len(EndpointMissing(ep)) > 0
    THEN Thrown([code |-> "endpoint_missing", endpoint |-> name, fields |-> EndpointMissing(ep)])
    ELSE Returned(Undefined)

validateTenantConfig_src(config) ==
    LET missing ==
            If(Falsy(config.brand_id), "brand_id")
            \o If(Falsy(config.name), "name")
            \o If(Falsy(Opt(config.zendesk, "subdomain")), "zendesk.subdomain")
            \o If(Falsy(Opt(config.zendesk, "email")), "zendesk.email")
            \o If(Falsy(Opt(config.zendesk, "apiToken")), "zendesk.apiToken")
            \o If(Falsy(Opt(config.zendesk, "webhookSecret")), "zendesk.webhookSecret")
            \o If(Falsy(Opt(config.malaskra, "apiKey")), "malaskra.apiKey")
            \o If(config.endpoints.t # "obj" \/ Len(Opt(config.endpoints, "entries")) = 0,
                  "endpoints (at least one required)")
    IN  IF Len(missing) > 0
        THEN Thrown([code |-> "missing", subject |-> ConfigSubject(config), fields |-> missing])
        ELSE FirstThrown([i \in 1..Len(config.endpoints.entries) |->
                            validateEndpoint_src(config.endpoints.entries[i].key,
                                                 config.endpoints.entries[i].value)])

CONSTRUCTOR_KEY == <<"c", "o", "n", "s", "t", "r", "u", "c", "t", "o", "r">>
TOSTRING_KEY == <<"t", "o", "S", "t", "r", "i", "n", "g">>
HTTPS_PREFIX == <<"h", "t", "t", "p", "s", ":", "/", "/">>
ZENDESK_API_SUFFIX == <<".", "z", "e", "n", "d", "e", "s", "k", ".", "c", "o", "m", "/", "a", "p", "i", "/", "v", "2">>
ZENDESK_COM == <<"z", "e", "n", "d", "e", "s", "k", ".", "c", "o", "m">>
ZDASSETS_COM == <<"z", "d", "a", "s", "s", "e", "t", "s", ".", "c", "o", "m">>

\* TenantStore.get(brandId): FileTenantStore's Map lookup, KvTenantStore's KV
\* read of the stored JSON text, which is held here as the object it parses to
StoreGet(tenants, brandId) ==
    IF brandId \in DOMAIN tenants THEN tenants[brandId] ELSE Null

\* tenant.ts
resolveTenantConfig(brandId, tenants) ==
    IF Len(brandId) = 0 THEN Null
    ELSE LET config == StoreGet(tenants, brandId)
         IN  IF Falsy(config) THEN Null
             ELSE IF validateTenantConfig(config).threw THEN Null
             ELSE config

\* src/tenant.ts
resolveTenantConfig_src(brandId, tenants) ==
    IF Len(brandId) = 0 THEN Null
    ELSE LET config == StoreGet(tenants, brandId)
         IN  IF Falsy(config) THEN Null ELSE config

\* names every object inherits from Object.prototype
ObjectPrototypeKeys == {CONSTRUCTOR_KEY, TOSTRING_KEY}

\* what obj[name] is for such a name: an object with none of an endpoint's fields
InheritedMember ==
    [t |-> "obj", type |-> Undefined, baseUrl |-> Undefined, appKey |-> Undefined,
     username |-> Undefined, password |-> Undefined, caseNumberFieldId |-> Undefined]

\* endpoints[docEndpoint]
Member(endpoints, docEndpoint) ==
    LET own == Get(endpoints, docEndpoint)
    IN  IF own.t = "undefined" /\ docEndpoint \in ObjectPrototypeKeys THEN InheritedMember
        ELSE own

TypeError == [code |-> "type_error"]

\* (mutant) the name is looked up in every stored tenant's map
resolveEndpoint_AnyTenant(tenantConfig, docEndpoint) ==
    LET found == {b \in DOMAIN store : ~Falsy(Member(store[b].endpoints, docEndpoint))}
    IN  IF found = {} THEN Thrown([code |-> "unknown_doc_endpoint", docEndpoint |-> docEndpoint])
        ELSE Returned(Member(store[CHOOSE b \in found : TRUE].endpoints, docEndpoint))

\* tenant.ts
resolveEndpoint(tenantConfig, docEndpoint) ==
    IF tenantConfig.endpoints.t # "obj" THEN Thrown(TypeError)
    ELSE LET ep == Member(tenantConfig.endpoints, docEndpoint)
         IN  IF Falsy(ep)
             \* Unknown doc_endpoint "${docEndpoint}"
             THEN Thrown([code |-> "unknown_doc_endpoint", docEndpoint |-> docEndpoint])
             ELSE Returned(ep)

\* src/tenant.ts
resolveEndpoint_src(tenantConfig, docEndpoint) ==
    IF tenantConfig.endpoints.t # "obj" THEN Thrown(TypeError)
    ELSE LET ep == Member(tenantConfig.endpoints, docEndpoint)
         IN  IF Falsy(ep)
             \* Unknown doc_endpoint "${docEndpoint}". Available: ${available}
             THEN Thrown([code |-> "unknown_doc_endpoint", docEndpoint |-> docEndpoint,
                          available |-> [i \in 1..Len(tenantConfig.endpoints.entries) |->
                                            tenantConfig.endpoints.entries[i].key]])
             ELSE Returned(ep)

\* the message of the error resolveEndpoint throws:
\* tenant.ts      Unknown doc_endpoint "${docEndpoint}"
\* src/tenant.ts  Unknown doc_endpoint "${docEndpoint}". Available: ${available}
UnknownEndpointMessage(error) ==
    <<"U", "n", "k", "n", "o", "w", "n", " ", "d", "o", "c", "_", "e", "n", "d", "p", "o", "i", "n", "t", " ">> \o <<"\"">> \o error.docEndpoint \o <<"\"">>
    \o (IF "available" \in DOMAIN error
        THEN <<".", " ", "A", "v", "a", "i", "l", "a", "b", "l", "e", ":", " ">> \o Join(error.available, <<",", " ">>)
        ELSE <<>>)

(***************************************************************************)
(* zendesk.ts and docClient.ts.  The Basic credential is the pair it is    *)
(* the base64 text of.                                                     *)
(***************************************************************************)
ZendeskClient(subdomain, apiToken, email) ==
    [baseUrl |-> HTTPS_PREFIX \o ToStringJs(subdomain) \o ZENDESK_API_SUFFIX,
     auth |-> [email |-> email, apiToken |-> apiToken]]

DefaultMaxFiles == 50
DefaultMaxTotalBytes == 100 * 1024 * 1024

\* the attachments of the comments, in order
RECURSIVE AllAttachments(_)
AllAttachments(comments) ==
    IF Len(comments) = 0 THEN <<>>
    ELSE (IF Falsy(comments[1].attachments) THEN <<>> ELSE comments[1].attachments.v)
         \o AllAttachments(Tail(comments))

\* hostname.split('.').slice(-2).join('.')
LastTwoLabels(hostname) ==
    LET parts == Split(hostname, ".")
    IN  IF Len(parts) <= 2 THEN hostname
        ELSE parts[Len(parts) - 1] \o <<".">> \o parts[Len(parts)]

\* (mutant) the host is matched by its ending
AllowedUrl_Suffix(attUrl) ==
    /\ attUrl.ok
    /\ attUrl.protocol = HttpsProtocol
    /\ \E d \in {ZENDESK_COM, ZDASSETS_COM} :
          /\ Len(attUrl.hostname) >= Len(d)
          /\ SubSeq(attUrl.hostname, Len(attUrl.hostname) - Len(d) + 1, Len(attUrl.hostname)) = d

\* the SSRF screen of fetchAttachments on the outcome of new URL(att.content_url)
AllowedUrl(attUrl) ==
    /\ attUrl.ok
    /\ attUrl.protocol = HttpsProtocol
    /\ LastTwoLabels(attUrl.hostname) \in {ZENDESK_COM, ZDASSETS_COM}

\* is att.content_url fetched at all
AllowedAttachmentUrl(contentUrl) == AllowedUrl(ParseUrl(contentUrl))

\* (mutant) a download that fails ends the loop
RECURSIVE fetchLoop_FailureEnds(_, _, _, _, _, _)
fetchLoop_FailureEnds(left, fetched, maxFiles, maxTotalBytes, attachments, requests) ==
    IF Len(left) = 0 THEN [attachments |-> attachments, requests |-> requests]
    ELSE LET att == left[1]
         IN  IF Len(attachments) >= maxFiles
             THEN [attachments |-> attachments, requests |-> requests]
             ELSE IF ~AllowedAttachmentUrl(att.content_url)
             THEN fetchLoop_FailureEnds(Tail(left), fetched, maxFiles, maxTotalBytes,
                                        attachments, requests)
             ELSE IF fetched[att.id].threw \/ ~fetched[att.id].ok
             THEN [attachments |-> attachments, requests |-> Append(requests, att.content_url)]
             ELSE fetchLoop_FailureEnds(Tail(left), fetched, maxFiles, maxTotalBytes,
                            Append(attachments,
                                   [filename |-> att.file_name, contentType |-> att.content_type,
                                    size |-> att.size, bytes |-> fetched[att.id].bytes]),
                            Append(requests, att.content_url))

\* the loop of fetchAttachments over the attachments left; fetched[id] is what
\* the download of attachment id yields: [threw, ok, bytes]
RECURSIVE fetchLoop(_, _, _, _, _, _)
fetchLoop(left, fetched, maxFiles, maxTotalBytes, attachments, requests) ==
    IF Len(left) = 0 THEN [attachments |-> attachments, requests |-> requests]
    ELSE LET att == left[1]
             totalBytes == LET RECURSIVE Sum(_)
                               Sum(as) == IF Len(as) = 0 THEN 0
                                          ELSE as[1].bytes + Sum(Tail(as))
                           IN  Sum(attachments)
         IN  IF Len(attachments) >= maxFiles
             THEN [attachments |-> attachments, requests |-> requests]
             ELSE IF ~AllowedAttachmentUrl(att.content_url)
             THEN fetchLoop(Tail(left), fetched, maxFiles, maxTotalBytes, attachments, requests)
             \* the fetch throws: caught, and the loop goes on
             ELSE IF fetched[att.id].threw
             THEN fetchLoop(Tail(left), fetched, maxFiles, maxTotalBytes, attachments,
                            Append(requests, att.content_url))
             ELSE IF ~fetched[att.id].ok
             THEN fetchLoop(Tail(left), fetched, maxFiles, maxTotalBytes, attachments,
                            Append(requests, att.content_url))
             ELSE IF totalBytes + fetched[att.id].bytes > maxTotalBytes
             THEN [attachments |-> attachments, requests |-> Append(requests, att.content_url)]
             ELSE fetchLoop(Tail(left), fetched, maxFiles, maxTotalBytes,
                            Append(attachments,
                                   [filename |-> att.file_name, contentType |-> att.content_type,
                                    size |-> att.size, bytes |-> fetched[att.id].bytes]),
                            Append(requests, att.content_url))

\* (mutant) the caps are not applied
fetchAttachments_Uncapped(comments, fetched, maxFiles, maxTotalBytes) ==
    fetchLoop(AllAttachments(comments), fetched, Len(AllAttachments(comments)) + 1,
              DefaultMaxTotalBytes, <<>>, <<>>)

fetchAttachments(comments, fetched, maxFiles, maxTotalBytes) ==
    fetchLoop(AllAttachments(comments), fetched, maxFiles, maxTotalBytes, <<>>, <<>>)

\* docClient.ts
createDocClient(ep, user) ==
    IF ep.type = Str("gopro")
    THEN IF Falsy(ep.username) \/ Falsy(ep.password)
         THEN Thrown([code |-> "gopro_missing_credentials"])
         ELSE Returned([type |-> "gopro", baseUrl |-> ep.baseUrl, username |-> ep.username,
                        password |-> ep.password])
    ELSE IF Falsy(ep.appKey)
    THEN Thrown([code |-> "onesystems_missing_appKey"])
    ELSE Returned([type |-> "onesystems", baseUrl |-> ep.baseUrl, appKey |-> ep.appKey,
                   user |-> IF Falsy(user) THEN Str("Zendesk") ELSE user])

(***************************************************************************)
(* Function-level specification of the authentication checks.  A sender    *)
(* signs (timestamp, body) under the shared secret as Zendesk does; one    *)
(* byte of what is presented may then be replaced, or a field dropped,     *)
(* before the receiver verifies.                                           *)
(***************************************************************************)
MaxTicks == 2              \* clock ticks of 1 ms the model lets pass
Now0 == 60 * MsPerMinute   \* 1970-01-01T01:00:00.000Z

AuthRawBodies == {
    <<"{", "\"", "t", "i", "c", "k", "e", "t", "_", "i", "d", "\"", ":", "1", "2", "3", "}">>,
    <<"{", "\"", "t", "i", "c", "k", "e", "t", "_", "i", "d", "\"", ":", "7", ",", "\"", "b", "r", "a", "n", "d", "_", "i", "d", "\"", ":", "\"", "4", "2", "\"", "}">> }

SigningSecrets == {"zd-secret-A", "zd-secret-B"}
ApiKeys == {"key", "kex", "longer-api-key"}
AuditSecrets == {"", "audit-secret", "x"}

\* offsets from Now0 of the instants a timestamp header names
FreshOffsets == {0 - 10 * MsPerMinute, 0 - 5 * MsPerMinute - 1, 0 - 5 * MsPerMinute,
                 0 - 2 * MsPerMinute, 0, 5 * MsPerMinute, 5 * MsPerMinute + 1,
                 5 * MsPerMinute + 2, 10 * MsPerMinute}

NotADate == <<"n", "o", "t", "-", "a", "-", "d", "a", "t", "e">>

\* the 20-character form without milliseconds, as in '2025-01-01T00:00:00Z'
ToIsoSeconds(ms) == SubSeq(ToISOString(ms), 1, 19) \o <<"Z">>

\* characters and symbols a tampering replaces a byte by
FlipChars == {"0", "x"}
FlipSymbols == {<<"A">>, <<"B">>}

\* makeSignature of the tests: what the sender attaches
makeSignature(body, timestamp, secret) == HmacSha256Base64(secret, timestamp \o body)

ReplaceAt(s, i, c) == [s EXCEPT ![i] = c]

AuthInitSig ==
    \E b \in AuthRawBodies, k \in SigningSecrets, off \in {0, 0 - 10 * MsPerMinute} :
        LET ts == ToISOString(Now0 + off)
        IN  input = [fn |-> "verifyWebhookSignature", tamper |-> "none",
                     rawBody |-> b, timestamp |-> Str(ts),
                     signature |-> Str(makeSignature(b, ts, k)), secret |-> Str(k)]

AuthInitFresh ==
    \/ \E off \in FreshOffsets, form \in {"ms", "s"} :
          input = [fn |-> "isTimestampFresh", kind |-> "iso",
                   instant |-> IF form = "ms" THEN Now0 + off
                               ELSE (Now0 + off) - ((Now0 + off) % MsPerSecond),
                   timestamp |-> Str(IF form = "ms" THEN ToISOString(Now0 + off)
                                     ELSE ToIsoSeconds(Now0 + off))]
    \/ \E g \in {Str(NotADate), Str(<<>>), Undefined} :
          input = [fn |-> "isTimestampFresh", kind |-> "garbage", instant |-> 0, timestamp |-> g]

AuthInitApiKey ==
    \E p \in {Undefined, Str("")} \cup {Str(k) : k \in ApiKeys},
       k \in {Undefined, Str("")} \cup {Str(k) : k \in ApiKeys} :
        input = [fn |-> "verifyApiKey", provided |-> p, key |-> k]

AuthInitAudit ==
    \E h \in {Undefined, Str(""), Str("Bearer "), Str("Bearer audit-secret"), Str("Bearer x"),
              Str("audit-secret")},
       k \in AuditSecrets :
        input = [fn |-> "auditAuth", authHeader |-> h, auditSecret |-> k]

AuthInit ==
    /\ now = Now0
    /\ output = None
    /\ FlowIdle
    /\ (AuthInitSig \/ AuthInitFresh \/ AuthInitApiKey \/ AuthInitAudit)

ClockTick ==
    /\ now < Now0 + MaxTicks
    /\ now' = now + 1
    /\ UNCHANGED <<input, output>> /\ UNCHANGED flowVars

Untampered == input.fn = "verifyWebhookSignature" /\ input.tamper = "none" /\ output = None

TamperBody ==
    /\ Untampered
    /\ \E i \in 1..Len(input.rawBody), c \in FlipChars :
          /\ c # input.rawBody[i]
          /\ input' = [input EXCEPT !.tamper = "body", !.rawBody = ReplaceAt(@, i, c)]
    /\ UNCHANGED <<now, output>> /\ UNCHANGED flowVars

TamperTimestamp ==
    /\ Untampered
    /\ \E i \in 1..Len(input.timestamp.v), c \in FlipChars :
          /\ c # input.timestamp.v[i]
          /\ input' = [input EXCEPT !.tamper = "timestamp",
                                    !.timestamp = Str(ReplaceAt(@.v, i, c))]
    /\ UNCHANGED <<now, output>> /\ UNCHANGED flowVars

TamperSignature ==
    /\ Untampered
    /\ \E i \in 1..Len(input.signature.v), c \in FlipSymbols :
          /\ c # input.signature.v[i]
          /\ input' = [input EXCEPT !.tamper = "signature",
                                    !.signature = Str(ReplaceAt(@.v, i, c))]
    /\ UNCHANGED <<now, output>> /\ UNCHANGED flowVars

\* the split between timestamp and body moved: the last characters of the
\* timestamp handed over as the start of the body, or the first characters
\* of the body as the end of the timestamp
MoveSplit ==
    /\ Untampered
    /\ \E k \in 1..2 :
          LET ts == input.timestamp.v
              n == Len(ts)
          IN  \/ input' = [input EXCEPT !.tamper = "split",
                                        !.timestamp = Str(SubSeq(ts, 1, n - k)),
                                        !.rawBody = SubSeq(ts, n - k + 1, n) \o @]
              \/ input' = [input EXCEPT !.tamper = "split",
                                        !.timestamp = Str(ts \o SubSeq(input.rawBody, 1, k)),
                                        !.rawBody = SubSeq(@, k + 1, Len(@))]
    /\ UNCHANGED <<now, output>> /\ UNCHANGED flowVars

\* a signature text of another length: cut short, or with a symbol appended
ResizeSignature ==
    /\ Untampered
    /\ \E n \in {1, Len(input.signature.v) - 1, Len(input.signature.v) + 1} :
          input' = [input EXCEPT !.tamper = "resized",
                                 !.signature = Str(IF n > Len(@.v) THEN Append(@.v, <<"A">>)
                                                   ELSE SubSeq(@.v, 1, n))]
    /\ UNCHANGED <<now, output>> /\ UNCHANGED flowVars

\* a header that is absent or empty, or a tenant without a secret
DropField ==
    /\ Untampered
    /\ \E f \in {"timestamp", "signature", "secret"}, e \in {Undefined, Str(<<>>)} :
          input' = [input EXCEPT !.tamper = "dropped_" \o f,
                                 ![f] = IF f = "secret" /\ e.t = "str" THEN Str("") ELSE e]
    /\ UNCHANGED <<now, output>> /\ UNCHANGED flowVars

CallVerifyWebhookSignature ==
    /\ input.fn = "verifyWebhookSignature" /\ output = None
    /\ output' = verifyWebhookSignatureTrace(input.rawBody, input.timestamp,
                                             input.signature, input.secret)
    /\ UNCHANGED <<now, input>> /\ UNCHANGED flowVars

CallIsTimestampFresh ==
    /\ input.fn = "isTimestampFresh" /\ output = None
    /\ output' = [value |-> isTimestampFresh(input.timestamp, WEBHOOK_TIMESTAMP_TOLERANCE_MS),
                  path |-> "none", compared |-> <<>>, at |-> now]
    /\ UNCHANGED <<now, input>> /\ UNCHANGED flowVars

CallVerifyApiKey ==
    /\ input.fn = "verifyApiKey" /\ output = None
    /\ output' = verifyApiKeyTrace(input.provided, input.key)
    /\ UNCHANGED <<now, input>> /\ UNCHANGED flowVars

CallAuditAuth ==
    /\ input.fn = "auditAuth" /\ output = None
    /\ output' = [auditAuthTrace(input.authHeader, input.auditSecret)
                    EXCEPT !.value = auditAuthorized(input.authHeader, input.auditSecret)]
    /\ UNCHANGED <<now, input>> /\ UNCHANGED flowVars

AuthNext ==
    \/ ClockTick
    \/ TamperBody
    \/ TamperTimestamp
    \/ TamperSignature
    \/ MoveSplit
    \/ ResizeSignature
    \/ DropField
    \/ CallVerifyWebhookSignature
    \/ CallIsTimestampFresh
    \/ CallVerifyApiKey
    \/ CallAuditAuth

SpecAuth == AuthInit /\ [][AuthNext]_vars

(***************************************************************************)
(* Function-level specification of the tenant config validator.  A config  *)
(* is the tests' makeValidTenant() with the endpoint's baseUrl written     *)
(* from a description (scheme, kind of host, octets and notation), so that *)
(* what the validator decides on the text can be held against what the     *)
(* address is.                                                             *)
(***************************************************************************)
OneSystemsName == <<"o", "n", "e", "s", "y", "s", "t", "e", "m", "s">>
GoProName == <<"g", "o", "p", "r", "o">>

BrandA == <<"4", "2">>
BrandB == <<"9", "9">>

Endpoint(type, baseUrl) ==
    [t |-> "obj", type |-> Str(type), baseUrl |-> baseUrl,
     appKey |-> IF type = "onesystems" THEN Str("test-key") ELSE Undefined,
     username |-> IF type = "gopro" THEN Str("u") ELSE Undefined,
     password |-> IF type = "gopro" THEN Str("p") ELSE Undefined,
     caseNumberFieldId |-> Undefined]

Endpoints(entries) == Obj(entries)

\* makeValidTenant() of the tests
ValidTenant(brand, name, secret, apiKey, endpoints) ==
    [t |-> "obj", brand_id |-> Str(brand), name |-> Str(name),
     zendesk |-> [t |-> "obj", subdomain |-> Str(<<"t", "e", "s", "t">>), email |-> Str("test@example.com"),
                  apiToken |-> Str("token-of-" \o name), webhookSecret |-> Str(secret)],
     endpoints |-> endpoints,
     malaskra |-> [t |-> "obj", apiKey |-> Str(apiKey)],
     pdf |-> [t |-> "obj", companyName |-> Str("Test Company"), locale |-> Str("is-IS"),
              includeInternalNotes |-> FALSE]]

RECURSIVE NatToHex(_)
NatToHex(n) ==
    IF n < 16 THEN <<HexDigits[n + 1]>>
    ELSE NatToHex(n \div 16) \o <<HexDigits[(n % 16) + 1]>>

FirstOctets == {0, 8, 10, 11, 126, 127, 128, 169, 172, 192, 193}
SecondOctets == {0, 15, 16, 31, 32, 168, 169, 253, 254}

HostNames == {<<"a", "p", "i", ".", "o", "n", "e", "s", "y", "s", "t", "e", "m", "s", ".", "i", "s">>, <<"a", "p", "i", ".", "o", "n", "e", "s", "y", "s", "t", "e", "m", "s", ".", "t", "e", "s", "t">>, <<"l", "o", "c", "a", "l", "h", "o", "s", "t">>, <<"L", "O", "C", "A", "L", "H", "O", "S", "T">>, <<"1", "0", ".", "e", "x", "a", "m", "p", "l", "e", ".", "c", "o", "m">>, <<"g", "o", "p", "r", "o", ".", "t", "e", "s", "t">>}

Ipv6Texts == {<<":", ":", "1">>, <<":", ":", "f", "f", "f", "f", ":", "1", "2", "7", ".", "0", ".", "0", ".", "1">>, <<":", ":", "f", "f", "f", "f", ":", "1", "0", ".", "0", ".", "0", ".", "1">>, <<":", ":", "f", "f", "f", "f", ":", "1", "6", "9", ".", "2", "5", "4", ".", "1", "6", "9", ".", "2", "5", "4">>, <<"2", "0", "0", "1", ":", "d", "b", "8", ":", ":", "1">>}

HostDescriptions ==
    [kind : {"ipv4"}, octets : {<<a, b, 0, 1>> : a \in FirstOctets, b \in SecondOctets},
     notation : {"dotted", "hex"}]
    \cup [kind : {"name"}, text : HostNames]
    \cup [kind : {"ipv6"}, text : Ipv6Texts]

UrlDescriptions == [scheme : {<<"h", "t", "t", "p", "s">>, <<"h", "t", "t", "p">>, <<"H", "T", "T", "P", "S">>}, host : HostDescriptions]

HostText(h) ==
    IF h.kind = "name" THEN h.text
    ELSE IF h.kind = "ipv6" THEN <<"[">> \o h.text \o <<"]">>
    ELSE IF h.notation = "dotted" THEN Ipv4Serialize(h.octets)
    ELSE <<"0", "x">> \o NatToHex(h.octets[1]) \o <<".">> \o NatToChars(h.octets[2])
         \o <<".">> \o NatToChars(h.octets[3]) \o <<".">> \o NatToChars(h.octets[4])

UrlText(d) == d.scheme \o <<":", "/", "/">> \o HostText(d.host) \o <<"/", "a", "p", "i">>

\* what the address is: loopback 127/8, 10/8, 172.16/12, 192.168/16, link-local
\* 169.254/16, localhost, or an IPv6 literal
HostIsPrivate(h) ==
    IF h.kind = "ipv6" THEN TRUE
    ELSE IF h.kind = "name" THEN ToLower(h.text) = <<"l", "o", "c", "a", "l", "h", "o", "s", "t">>
    ELSE LET a == h.octets[1]
             b == h.octets[2]
         IN  \/ a = 127
             \/ a = 10
             \/ a = 172 /\ b >= 16 /\ b <= 31
             \/ a = 192 /\ b = 168
             \/ a = 169 /\ b = 254

\* a public host: a DNS name other than localhost, or an IPv4 address outside the
\* ranges above and outside the reserved 0/8
HostIsPublic(h) ==
    /\ ~HostIsPrivate(h)
    /\ h.kind = "ipv4" => h.octets[1] # 0

\* the required fields of a config, and of each kind of endpoint
ConfigFields ==
    {"brand_id", "name", "zendesk.subdomain", "zendesk.email", "zendesk.apiToken",
     "zendesk.webhookSecret", "malaskra.apiKey", "pdf.companyName"}
EndpointFields(type) ==
    IF type = "gopro" THEN {"type", "baseUrl", "username", "password"}
    ELSE {"type", "baseUrl", "appKey"}

\* what is taken out of a valid config: nothing, one field of the config, the
\* endpoints, or one field of one endpoint; a field is deleted or left empty
NoRemoval == [scope |-> "none", field |-> "", endpoint |-> <<>>, empty |-> FALSE]
Removals ==
    [scope : {"config"}, field : ConfigFields, endpoint : {<<>>}, empty : BOOLEAN]
    \cup [scope : {"endpoints"}, field : {"endpoints"}, endpoint : {<<>>}, empty : BOOLEAN]
    \cup [scope : {"endpoint"}, field : EndpointFields("onesystems"),
          endpoint : {OneSystemsName}, empty : BOOLEAN]
    \cup [scope : {"endpoint"}, field : EndpointFields("gopro"),
          endpoint : {GoProName}, empty : BOOLEAN]

Blank(r) == IF r.empty THEN Str("") ELSE Undefined

RemoveFromEndpoint(ep, r) ==
    IF r.field = "type" THEN [ep EXCEPT !.type = Blank(r)]
    ELSE IF r.field = "baseUrl" THEN [ep EXCEPT !.baseUrl = Blank(r)]
    ELSE IF r.field = "appKey" THEN [ep EXCEPT !.appKey = Blank(r)]
    ELSE IF r.field = "username" THEN [ep EXCEPT !.username = Blank(r)]
    ELSE [ep EXCEPT !.password = Blank(r)]

Remove(config, r) ==
    IF r.scope = "none" THEN config
    ELSE IF r.scope = "endpoints"
    THEN [config EXCEPT !.endpoints = IF r.empty THEN Obj(<<>>) ELSE Undefined]
    ELSE IF r.scope = "endpoint"
    THEN [config EXCEPT !.endpoints.entries =
            [i \in DOMAIN config.endpoints.entries |->
                LET e == config.endpoints.entries[i]
                IN  IF e.key = r.endpoint
                    THEN [key |-> e.key, value |-> RemoveFromEndpoint(e.value, r)]
                    ELSE e]]
    ELSE IF r.field = "brand_id" THEN [config EXCEPT !.brand_id = Blank(r)]
    ELSE IF r.field = "name" THEN [config EXCEPT !.name = Blank(r)]
    ELSE IF r.field = "zendesk.subdomain" THEN [config EXCEPT !.zendesk.subdomain = Blank(r)]
    ELSE IF r.field = "zendesk.email" THEN [config EXCEPT !.zendesk.email = Blank(r)]
    ELSE IF r.field = "zendesk.apiToken" THEN [config EXCEPT !.zendesk.apiToken = Blank(r)]
    ELSE IF r.field = "zendesk.webhookSecret"
    THEN [config EXCEPT !.zendesk.webhookSecret = Blank(r)]
    ELSE IF r.field = "malaskra.apiKey" THEN [config EXCEPT !.malaskra.apiKey = Blank(r)]
    ELSE [config EXCEPT !.pdf.companyName = Blank(r)]

\* the valid configs the removals start from
ValidConfigs ==
    {ValidTenant(BrandA, "Test Tenant", "test-webhook-secret", "test-malaskra-key",
                 Endpoints(<<[key |-> OneSystemsName,
                              value |-> Endpoint("onesystems",
                                                 Str(<<"h", "t", "t", "p", "s", ":", "/", "/", "a", "p", "i", ".", "o", "n", "e", "s", "y", "s", "t", "e", "m", "s", ".", "t", "e", "s", "t">>))],
                             [key |-> GoProName,
                              value |-> Endpoint("gopro", Str(<<"h", "t", "t", "p", "s", ":", "/", "/", "g", "o", "p", "r", "o", ".", "t", "e", "s", "t", "/", "a", "p", "i">>))]>>)),
     ValidTenant(BrandB, "Tenant B", "zd-secret-B", "key-B",
                 Endpoints(<<[key |-> GoProName,
                              value |-> Endpoint("gopro", Str(<<"h", "t", "t", "p", "s", ":", "/", "/", "g", "o", "p", "r", "o", ".", "t", "e", "s", "t", "/", "a", "p", "i">>))]>>))}

\* a subdomain that would lead the helpdesk calls to another host
CraftedSubdomain == Str(<<"e", "v", "i", "l", ".", "c", "o", "m", "/", "x">>)

ValidateInit ==
    /\ now = Now0
    /\ output = None
    /\ FlowIdle
    /\ \/ \E d \in UrlDescriptions :
             input = [fn |-> "validateTenantConfig", url |-> d, removed |-> NoRemoval,
                      config |-> ValidTenant(BrandA, "Test Tenant", "test-webhook-secret",
                                             "test-malaskra-key",
                                             Endpoints(<<[key |-> OneSystemsName,
                                                          value |-> Endpoint("onesystems",
                                                                             Str(UrlText(d)))]>>))]
       \/ \E c \in ValidConfigs, r \in Removals \cup {NoRemoval} :
             /\ r.scope = "endpoint" =>
                   \E i \in DOMAIN c.endpoints.entries : c.endpoints.entries[i].key = r.endpoint
             /\ input = [fn |-> "validateTenantConfig", url |-> None, removed |-> r,
                         config |-> Remove(c, r)]
       \/ \E c \in ValidConfigs, r \in Removals :
             /\ r.scope = "config" /\ r.field # "zendesk.subdomain"
             /\ input = [fn |-> "validateTenantConfig", url |-> None, removed |-> r,
                         config |-> [Remove(c, r) EXCEPT !.zendesk.subdomain = CraftedSubdomain]]

CallValidateTenantConfig ==
    /\ input.fn = "validateTenantConfig" /\ output = None
    /\ output' = [impl |-> "tenant.ts", result |-> validateTenantConfig(input.config)]
    /\ UNCHANGED <<now, input>> /\ UNCHANGED flowVars

CallValidateTenantConfigSrc ==
    /\ input.fn = "validateTenantConfig" /\ output = None
    /\ output' = [impl |-> "src/tenant.ts", result |-> validateTenantConfig_src(input.config)]
    /\ UNCHANGED <<now, input>> /\ UNCHANGED flowVars

ValidateNext ==
    \/ CallValidateTenantConfig
    \/ CallValidateTenantConfigSrc

SpecValidate == ValidateInit /\ [][ValidateNext]_vars

(***************************************************************************)
(* The audit query: GET /v1/audit of index.ts (handleAuditHttp) and of the *)
(* Worker.  The audit store holds keys; list returns those that start with *)
(* the prefix (the stores hold fewer keys than the default limit of 20).   *)
(***************************************************************************)
\* /^[a-zA-Z0-9_-]+$/
AUDIT_PARAM_PATTERN(s) ==
    /\ Len(s) >= 1
    /\ \A i \in 1..Len(s) : IsAlnum(s[i]) \/ s[i] = "_" \/ s[i] = "-"

sanitizeAuditParam(value) ==
    IF Falsy(value) THEN Null
    ELSE IF AUDIT_PARAM_PATTERN(value.v) THEN value ELSE Null

AUDIT_PREFIX == <<"a", "u", "d", "i", "t", ":">>
TICKET_PREFIX == <<"t", "i", "c", "k", "e", "t", ":">>

\* let prefix = 'audit:' ... of both entry points
auditPrefix(brandId, ticketId) ==
    IF ~Falsy(brandId) /\ ~Falsy(ticketId)
    THEN TICKET_PREFIX \o brandId.v \o <<":">> \o ticketId.v \o <<":">>
    ELSE IF ~Falsy(brandId) THEN AUDIT_PREFIX \o brandId.v \o <<":">>
    ELSE AUDIT_PREFIX

\* AuditStore.list({ prefix })
auditList(keys, prefix) == {k \in keys : StartsWith(k, prefix)}

\* index.ts: the parameters are used as they come
handleAuditHttp(q) ==
    IF ~auditAuthorized(q.authorization, q.auditSecret)
    THEN [status |-> 401, prefix |-> None, keys |-> {}]
    ELSE LET prefix == auditPrefix(q.brand_id, q.ticket_id)
         IN  [status |-> 200, prefix |-> prefix, keys |-> auditList(q.stored, prefix)]

\* the Worker: AUDIT_LOG must be bound, and the parameters are sanitized
fetchAudit(q) ==
    IF ~q.auditLog THEN [status |-> 500, prefix |-> None, keys |-> {}]
    ELSE IF ~auditAuthorized(q.authorization, q.auditSecret)
    THEN [status |-> 401, prefix |-> None, keys |-> {}]
    ELSE LET prefix == auditPrefix(sanitizeAuditParam(q.brand_id),
                                   sanitizeAuditParam(q.ticket_id))
         IN  [status |-> 200, prefix |-> prefix, keys |-> auditList(q.stored, prefix)]

\* the values of a query parameter: absent, empty, well-formed, and with
\* characters outside the pattern
AuditParamValues ==
    {Null, Str(<<>>), Str(BrandA), Str(<<"b", "r", "a", "n", "d", "-", "a">>), Str(<<"a", "_", "B", "9">>), Str(<<"1", "2", "3">>),
     Str(<<"4", "2", ":", "1", "2", "3">>), Str(<<"4", "2", ":">>), Str(<<"4", " ", "2">>), Str(<<"*">>),
     Str(<<".", ".", "/", "x">>), Str(<<"4", "2", "\"">>)}

StoredAuditKeys ==
    {<<"a", "u", "d", "i", "t", ":", "4", "2", ":", "1", "9", "7", "0", "-", "0", "1", "-", "0", "1", "T", "0", "1", "-", "0", "0", "-", "0", "0", "-", "0", "0", "0", "Z", ":", "1", "2", "3">>, <<"t", "i", "c", "k", "e", "t", ":", "4", "2", ":", "1", "2", "3", ":", "1", "9", "7", "0", "-", "0", "1", "-", "0", "1", "T", "0", "1", "-", "0", "0", "-", "0", "0", "-", "0", "0", "0", "Z">>,
     <<"a", "u", "d", "i", "t", ":", "4", "2", ":", "1", "2", "3", ":", "1", "9", "7", "0", "-", "0", "1", "-", "0", "1", "T", "0", "1", "-", "0", "0", "-", "0", "0", "-", "0", "0", "0", "Z", ":", "7">>,
     <<"a", "u", "d", "i", "t", ":", "9", "9", ":", "1", "9", "7", "0", "-", "0", "1", "-", "0", "1", "T", "0", "1", "-", "0", "0", "-", "0", "0", "-", "0", "0", "0", "Z", ":", "7">>, <<"t", "i", "c", "k", "e", "t", ":", "9", "9", ":", "7", ":", "1", "9", "7", "0", "-", "0", "1", "-", "0", "1", "T", "0", "1", "-", "0", "0", "-", "0", "0", "-", "0", "0", "0", "Z">>}

AuditInit ==
    /\ now = Now0 /\ output = None /\ FlowIdle
    /\ \/ \E v \in AuditParamValues : input = [fn |-> "sanitizeAuditParam", value |-> v]
       \/ \E e \in {"node", "worker"}, b \in AuditParamValues, t \in AuditParamValues,
             authorised \in BOOLEAN, bound \in BOOLEAN :
             /\ e = "node" => bound
             /\ input = [fn |-> "audit", entry |-> e, brand_id |-> b, ticket_id |-> t,
                         authorization |-> IF authorised THEN Str("Bearer audit-secret")
                                           ELSE Str("Bearer guess"),
                         auditSecret |-> "audit-secret", auditLog |-> bound,
                         stored |-> StoredAuditKeys]

CallSanitizeAuditParam ==
    /\ input.fn = "sanitizeAuditParam" /\ output = None
    /\ output' = sanitizeAuditParam(input.value)
    /\ UNCHANGED <<now, input>> /\ UNCHANGED flowVars

AuditQueryNode ==
    /\ input.fn = "audit" /\ input.entry = "node" /\ output = None
    /\ output' = handleAuditHttp(input)
    /\ UNCHANGED <<now, input>> /\ UNCHANGED flowVars

AuditQueryWorker ==
    /\ input.fn = "audit" /\ input.entry = "worker" /\ output = None
    /\ output' = fetchAudit(input)
    /\ UNCHANGED <<now, input>> /\ UNCHANGED flowVars

AuditNext ==
    \/ CallSanitizeAuditParam
    \/ AuditQueryNode
    \/ AuditQueryWorker

SpecAudit == AuditInit /\ [][AuditNext]_vars

(***************************************************************************)
(* The limit of the audit query of index.ts.  The store holds a number of  *)
(* files whose keys start with the prefix, key 1 the oldest; the query     *)
(* carries a limit parameter, or none.                                     *)
(***************************************************************************)
\* parseInt(s, 10): white space, a sign, and the digits that follow; NaN
\* when no digit follows
ParseInt10(s) ==
    LET text == {j \in 1..Len(s) : s[j] \notin {" ", "\t", "\n", "\r"}}
        start == IF text = {} THEN Len(s) + 1 ELSE CHOOSE j \in text : \A k \in text : j <= k
        signed == start <= Len(s) /\ s[start] \in {"-", "+"}
        from == IF signed THEN start + 1 ELSE start
        stop == {j \in from..Len(s) : ~IsDigit(s[j])}
        end == IF stop = {} THEN Len(s) ELSE (CHOOSE j \in stop : \A k \in stop : j <= k) - 1
    IN  IF end < from THEN NaN
        ELSE Num(IF signed /\ s[start] = "-" THEN 0 - DecVal(SubSeq(s, from, end))
                 ELSE DecVal(SubSeq(s, from, end)))

DEFAULT_LIMIT == <<"2", "0">>

\* Math.min(parseInt(url.searchParams.get('limit') || '20', 10), 100)
auditLimit(param) ==
    LET n == ParseInt10(IF Falsy(param) THEN DEFAULT_LIMIT ELSE param.v)
    IN  IF n = NaN THEN NaN ELSE IF n.v < 100 THEN n ELSE Num(100)

\* items.slice(0, end): a negative end counts from the back, NaN is 0
Slice(items, end) ==
    LET n == Len(items)
        to == IF end = NaN THEN 0
              ELSE IF end.v < 0 THEN (IF n + end.v < 0 THEN 0 ELSE n + end.v)
              ELSE IF end.v > n THEN n ELSE end.v
    IN  SubSeq(items, 1, to)

\* FileAuditStore.list: the matching keys, newest first, cut at the limit
FileAuditStoreList(matching, limit) ==
    Slice([i \in 1..matching |-> matching + 1 - i], limit)

\* the numbers of stored files that match the prefix
StoredCounts == {0, 1, 5, 20, 21, 100, 101, 150}

LimitParams ==
    {Null, Str(<<>>), Str(<<"0">>), Str(<<"1">>), Str(<<"5">>), Str(<<"2", "0">>),
     Str(<<"1", "0", "0">>), Str(<<"1", "0", "1">>), Str(<<"5", "0", "0", "0">>),
     Str(<<"-", "1">>), Str(<<"-", "5", "0">>), Str(<<"a", "b", "c">>),
     Str(<<"7", "x">>), Str(<<" ", "7">>), Str(<<"+", "3">>), Str(<<"-">>)}

LimitInit ==
    /\ now = Now0 /\ output = None /\ FlowIdle
    /\ \E n \in StoredCounts, p \in LimitParams :
          input = [fn |-> "auditLimit", matching |-> n, limit |-> p]

\* handleAuditHttp from the limit on: the keys listed and the entries read
AuditQueryLimited ==
    /\ input.fn = "auditLimit" /\ output = None
    /\ LET keys == FileAuditStoreList(input.matching, auditLimit(input.limit))
       IN  output' = [status |-> 200, count |-> Len(keys), entries |-> keys]
    /\ UNCHANGED <<now, input>> /\ UNCHANGED flowVars

LimitNext == AuditQueryLimited

SpecLimit == LimitInit /\ [][LimitNext]_vars

(***************************************************************************)
(* The logger of logger.ts over the configuration of config.ts.  The       *)
(* process starts with an environment, creates a logger and logs messages; *)
(* output keeps the cached configuration, the logger's threshold, the      *)
(* calls made and the lines written to the console.                        *)
(***************************************************************************)
LOG_LEVELS == [debug |-> 0, info |-> 1, warn |-> 2, error |-> 3]

LevelNames == {"debug", "info", "warn", "error"}

\* names every object inherits from Object.prototype
InheritedNames == {"constructor", "toString"}

\* LOG_LEVELS[name]
LogLevel(name) ==
    IF name \in LevelNames THEN Num(LOG_LEVELS[name])
    ELSE IF name \in InheritedNames THEN [t |-> "function"]
    ELSE Undefined

\* getConfig: the cached configuration, or one read from the environment
getConfig(cached, env) ==
    IF cached # None THEN cached
    ELSE [service |-> [logLevel |-> IF env.LOG_LEVEL = Undefined \/ env.LOG_LEVEL.v = ""
                                    THEN "info" ELSE env.LOG_LEVEL.v]]

\* LOG_LEVELS[config.service.logLevel] || LOG_LEVELS.info
minLevelOf(config) ==
    LET named == LogLevel(config.service.logLevel)
    IN  IF Falsy(named) THEN LogLevel("info") ELSE named

\* LOG_LEVELS[level] < minLevel: a threshold that is no number compares false
BelowMinLevel(level, minLevel) ==
    minLevel.t = "num" /\ LOG_LEVELS[level] < minLevel.v

SEVERITY == [debug |-> "DEBUG", info |-> "INFO", warn |-> "WARN", error |-> "ERROR"]

MaxLogs == 2

LogEnvValues ==
    {Undefined, Str(""), Str("debug"), Str("info"), Str("warn"), Str("error"),
     Str("verbose"), Str("DEBUG"), Str("constructor")}

LogInit ==
    /\ now = Now0 /\ FlowIdle
    /\ \E v \in LogEnvValues : input = [fn |-> "createLogger", env |-> [LOG_LEVEL |-> v]]
    /\ output = [config |-> None, minLevel |-> None, logged |-> <<>>, console |-> <<>>]

\* createLogger(component)
CallCreateLogger ==
    /\ input.fn = "createLogger" /\ output.minLevel = None
    /\ \E config \in {getConfig(output.config, input.env)} :
          output' = [output EXCEPT !.config = config, !.minLevel = minLevelOf(config)]
    /\ UNCHANGED <<now, input>> /\ UNCHANGED flowVars

\* logger.debug / info / warn / error (msg)
CallLog ==
    /\ input.fn = "createLogger" /\ output.minLevel # None
    /\ Len(output.logged) < MaxLogs
    /\ \E level \in LevelNames :
          output' = [output EXCEPT
              !.logged = Append(@, [level |-> level,
                                    emitted |-> ~BelowMinLevel(level, output.minLevel)]),
              !.console = IF BelowMinLevel(level, output.minLevel) THEN @
                          ELSE Append(@, [severity |-> SEVERITY[level]])]
    /\ UNCHANGED <<now, input>> /\ UNCHANGED flowVars

LogNext == CallCreateLogger \/ CallLog

SpecLog == LogInit /\ [][LogNext]_vars

(***************************************************************************)
(* Serving one request.  Two tenants are stored; the second one's config   *)
(* is either valid or names an archive on a private http address.  The     *)
(* Node entry point (index.ts) is linked with the tenant module beside it, *)
(* src/tenant.ts; the Worker entry point with tenant.ts, the only one that *)
(* exports what it imports.                                                *)
(***************************************************************************)
TICKET_ID_KEY == <<"t", "i", "c", "k", "e", "t", "_", "i", "d">>
BRAND_ID_KEY == <<"b", "r", "a", "n", "d", "_", "i", "d">>
DOC_ENDPOINT_KEY == <<"d", "o", "c", "_", "e", "n", "d", "p", "o", "i", "n", "t">>
CASE_NUMBER_KEY == <<"c", "a", "s", "e", "_", "n", "u", "m", "b", "e", "r">>
ArchiveBName == <<"a", "r", "c", "h", "i", "v", "e", "B">>
UnknownName == <<"n", "o", "p", "e">>
BrandUnknown == <<"7", "7">>

Deployments ==
    {[entry |-> "node", tenantModule |-> "src/tenant.ts", auditStore |-> TRUE],
     [entry |-> "worker", tenantModule |-> "tenant.ts", auditStore |-> TRUE],
     [entry |-> "worker", tenantModule |-> "tenant.ts", auditStore |-> FALSE]}

CaseNumberField == Num(8888)
OtherField == Num(7777)

TenantA ==
    [ValidTenant(BrandA, "Tenant A", "zd-secret-A", "key-A",
                 Endpoints(<<
                    [key |-> OneSystemsName,
                     value |-> [Endpoint("onesystems", Str(<<"h", "t", "t", "p", "s", ":", "/", "/", "a", "p", "i", ".", "o", "n", "e", "s", "y", "s", "t", "e", "m", "s", ".", "t", "e", "s", "t", "/", "a", "p", "i">>))
                                  EXCEPT !.appKey = Str("appkey-A")]],
                    [key |-> GoProName,
                     value |-> [Endpoint("gopro", Str(<<"h", "t", "t", "p", "s", ":", "/", "/", "g", "o", "p", "r", "o", ".", "t", "e", "s", "t", "/", "a", "p", "i">>))
                                  EXCEPT !.username = Str("gopro-user-A"),
                                         !.password = Str("gopro-pass-A"),
                                         !.caseNumberFieldId = CaseNumberField]]>>))
       EXCEPT !.zendesk.subdomain = Str(<<"t", "e", "n", "a", "n", "t", "-", "a">>),
              !.zendesk.email = Str("agent@a.example")]

TenantB ==
    [ValidTenant(BrandB, "Tenant B", "zd-secret-B", "key-B",
                 Endpoints(<<
                    [key |-> ArchiveBName,
                     value |-> [Endpoint("onesystems", Str(<<"h", "t", "t", "p", "s", ":", "/", "/", "a", "r", "c", "h", "i", "v", "e", "-", "b", ".", "t", "e", "s", "t", "/", "a", "p", "i">>))
                                  EXCEPT !.appKey = Str("appkey-B")]]>>))
       EXCEPT !.zendesk.subdomain = Str(<<"t", "e", "n", "a", "n", "t", "-", "b">>),
              !.zendesk.email = Str("agent@b.example")]

\* a stored config that validateTenantConfig rejects: no name, and an archive on
\* a private http address
TenantBInvalid ==
    [TenantB EXCEPT !.name = Undefined,
                    !.endpoints =
        Endpoints(<<[key |-> ArchiveBName,
                     value |-> [Endpoint("onesystems", Str(<<"h", "t", "t", "p", ":", "/", "/", "1", "0", ".", "0", ".", "0", ".", "5", "/", "a", "p", "i">>))
                                  EXCEPT !.appKey = Str("appkey-B")]]>>)]

Stores ==
    {(BrandA :> TenantA) @@ (BrandB :> TenantB),
     (BrandA :> TenantA) @@ (BrandB :> TenantBInvalid)}

\* what a client puts in the body: the value of each member, with what the
\* sender means by it (the brand it names; whether the ticket id is a positive
\* integer; whether the case number is a non-empty text)
BrandClaims ==
    {[brand |-> BrandA, value |-> Str(BrandA)], [brand |-> BrandA, value |-> Num(42)],
     [brand |-> BrandB, value |-> Str(BrandB)],
     [brand |-> BrandUnknown, value |-> Str(BrandUnknown)],
     [brand |-> <<>>, value |-> Undefined]}
DocEndpointValues == {Str(OneSystemsName), Str(GoProName), Str(ArchiveBName), Str(UnknownName),
                      Str(CONSTRUCTOR_KEY), Undefined}
TicketIds ==
    {[positive |-> TRUE, value |-> Num(123)], [positive |-> TRUE, value |-> Str(<<"1", "2", "3">>)],
     [positive |-> FALSE, value |-> Num(0)], [positive |-> FALSE, value |-> Float(1, <<"5">>)],
     [positive |-> FALSE, value |-> Str(<<"a", "b", "c">>)],
     [positive |-> FALSE, value |-> Undefined]}
CaseNumbers ==
    {[text |-> TRUE, value |-> Str(<<"C", "A", "S", "E", "-", "1">>)], [text |-> FALSE, value |-> Num(5)],
     [text |-> FALSE, value |-> Undefined]}
NoCaseNumber == [text |-> FALSE, value |-> Undefined]
NotJsonBodies == {<<"n", "o", "t", " ", "j", "s", "o", "n">>, <<"n", "u", "l", "l">>}

BodyDescriptions(cases) ==
    [json : {TRUE}, ticket : TicketIds, brand : BrandClaims, doc : DocEndpointValues,
     case : cases, raw : {<<>>}]
    \cup [json : {FALSE}, ticket : {[positive |-> FALSE, value |-> Undefined]},
          brand : {[brand |-> <<>>, value |-> Undefined]}, doc : {Undefined},
          case : {NoCaseNumber}, raw : NotJsonBodies]

\* the body as the client serialises it
RawBody(d) ==
    IF ~d.json THEN d.raw
    ELSE JsonStringify(Obj(<<[key |-> TICKET_ID_KEY, value |-> d.ticket.value],
                             [key |-> BRAND_ID_KEY, value |-> d.brand.value],
                             [key |-> DOC_ENDPOINT_KEY, value |-> d.doc],
                             [key |-> CASE_NUMBER_KEY, value |-> d.case.value]>>))

Headers(signature, timestamp, apiKey) ==
    [x_zendesk_webhook_signature |-> signature,
     x_zendesk_webhook_signature_timestamp |-> timestamp,
     x_api_key |-> apiKey]

\* how a webhook's signature header came about, and its timestamp header
SignatureForms ==
    {[secret |-> k, how |-> "signed"] : k \in SigningSecrets}
    \cup {[secret |-> "zd-secret-A", how |-> "cut"], [secret |-> "zd-secret-A", how |-> "absent"]}

Stampings ==
    {[stamped |-> TRUE, at |-> Now0 - 5 * MsPerMinute],
     [stamped |-> TRUE, at |-> Now0 + 5 * MsPerMinute + 1],
     [stamped |-> FALSE, at |-> Now0 - 5 * MsPerMinute]}

\* a webhook as Zendesk sends it: signed under a secret over timestamp+body; the
\* signature may arrive cut short, and either header may be missing.  sent
\* records how the request was made.
PlainWebhookRequests ==
    {[route |-> "webhook", rawBody |-> RawBody(d),
      headers |-> Headers(IF f.how = "absent" THEN Undefined
                          ELSE IF f.how = "cut"
                          THEN Str(SubSeq(makeSignature(RawBody(d), ToISOString(st.at), f.secret),
                                          1, Sha256Base64Len - 1))
                          ELSE Str(makeSignature(RawBody(d), ToISOString(st.at), f.secret)),
                          IF st.stamped THEN Str(ToISOString(st.at)) ELSE Undefined,
                          Undefined),
      sent |-> [body |-> d, signedWith |-> IF f.how = "signed" THEN f.secret ELSE "",
                stamped |-> st.stamped, at |-> st.at, apiKey |-> ""]] :
        d \in BodyDescriptions({NoCaseNumber}), f \in SignatureForms, st \in Stampings}

PlainAttachmentsRequests ==
    {[route |-> "attachments", rawBody |-> RawBody(d),
      headers |-> Headers(Undefined, Undefined, IF key = "" THEN Undefined ELSE Str(key)),
      sent |-> [body |-> d, signedWith |-> "", stamped |-> FALSE, at |-> Now0, apiKey |-> key]] :
        d \in BodyDescriptions(CaseNumbers), key \in {"key-A", "key-B", "key-C", ""}}

MAX_BODY_SIZE == 1024 * 1024

\* what a body carries beside the text of rawBody: nothing, or a member of
\* filler that takes it to the limit, a byte over it in ASCII, or over it in
\* two-byte characters
Fillers(text) ==
    {[kind |-> "none", chars |-> 0, bytes |-> 0],
     [kind |-> "brim", chars |-> MAX_BODY_SIZE - Len(text), bytes |-> MAX_BODY_SIZE - Len(text)],
     [kind |-> "ascii", chars |-> MAX_BODY_SIZE - Len(text) + 1,
      bytes |-> MAX_BODY_SIZE - Len(text) + 1],
     [kind |-> "wide", chars |-> MAX_BODY_SIZE \div 2, bytes |-> MAX_BODY_SIZE]}

\* the request with its body so filled, and with or without a Content-Length
\* header (a chunked request has none)
Sized(r, filler, declared) ==
    LET bytes == Len(r.rawBody) + filler.bytes
    IN  [route |-> r.route, rawBody |-> r.rawBody, headers |-> r.headers,
         contentLength |-> IF declared THEN Str(IntText(bytes)) ELSE Undefined,
         sent |-> [body |-> r.sent.body, signedWith |-> r.sent.signedWith,
                   stamped |-> r.sent.stamped, at |-> r.sent.at, apiKey |-> r.sent.apiKey,
                   bytes |-> bytes, chars |-> Len(r.rawBody) + filler.chars]]

\* the request tenant A's helpdesk or caller makes for ticket 123 and the
\* first archive, which is met with every filler
IsModelRequest(r) ==
    /\ r.sent.body.json /\ r.sent.body.ticket.value = Num(123)
    /\ r.sent.body.brand.value = Str(BrandA) /\ r.sent.body.doc = Str(OneSystemsName)
    /\ r.sent.body.case.value \in {Undefined, Str(<<"C", "A", "S", "E", "-", "1">>)}
    /\ r.sent.signedWith \in {"", "zd-secret-A"} /\ r.sent.apiKey \in {"", "key-A"}
    /\ (r.route = "webhook" => r.sent.signedWith = "zd-secret-A" /\ r.sent.stamped
                                /\ r.sent.at = Now0 - 5 * MsPerMinute)
    /\ (r.route = "attachments" => r.sent.apiKey = "key-A")

SizedRequests(plain) ==
    {Sized(r, [kind |-> "none", chars |-> 0, bytes |-> 0], TRUE) : r \in plain}
    \cup UNION {{Sized(r, f, declared) :
                    f \in {g \in Fillers(r.rawBody) : g.kind # "none"}, declared \in BOOLEAN} :
                 r \in {q \in plain : IsModelRequest(q)}}

WebhookRequests == SizedRequests(PlainWebhookRequests)

AttachmentsRequests == SizedRequests(PlainAttachmentsRequests)

Reply(status, body) == [status |-> status, body |-> body]

NoLocals ==
    [tenantConfig |-> None, docEndpoint |-> None, body |-> None, startTime |-> 0,
     ticket_id |-> None, caseNumber |-> None, ep |-> None, zendesk |-> None,
     ticket |-> None, comments |-> None, attachments |-> None, authors |-> None,
     pdfBuffer |-> None, docClient |-> None, auditEntry |-> None,
     forwarded |-> 0, errors |-> <<>>, left |-> <<>>,
     \* the outbound calls that have failed so far, in order
     failed |-> <<>>,
     uploads |-> <<>>]

\* what the helpdesk may answer
Arr(items) == [t |-> "arr", v |-> items]

ZendeskApiError == [code |-> "zendesk_api_error"]

Ticket(id, brand, fields) ==
    [id |-> id, subject |-> "Test", status |-> "solved", brand_id |-> brand,
     custom_fields |-> fields]

\* the custom fields a ticket may carry
CustomFields ==
    {Arr(<<[id |-> CaseNumberField, value |-> Str(<<"C", "A", "S", "E", "-", "9">>)]>>),
     Arr(<<[id |-> CaseNumberField, value |-> Str(<<"Z", "D", "-", "2", "0", "2", "4">>)]>>),
     Arr(<<[id |-> CaseNumberField, value |-> Str(<<>>)]>>),
     Arr(<<[id |-> CaseNumberField, value |-> Null]>>),
     Arr(<<[id |-> CaseNumberField, value |-> Num(0)]>>),
     Arr(<<[id |-> OtherField, value |-> Str(<<"O", "T", "H", "E", "R">>)]>>),
     Arr(<<[id |-> OtherField, value |-> Str(<<"O", "T", "H", "E", "R">>)],
           [id |-> CaseNumberField, value |-> Num(77)]>>)}

TicketOutcomes(id) ==
    {Thrown(ZendeskApiError)}
    \cup {Returned(Ticket(id, b, Undefined)) : b \in {Undefined, Null, Num(42), Num(99)}}
    \cup {Returned(Ticket(id, Num(42), fields)) : fields \in CustomFields}
    \cup {Returned(Ticket(id, Num(99), Arr(<<[id |-> CaseNumberField,
                                              value |-> Str(<<"C", "A", "S", "E", "-", "9">>)]>>)))}

Comment(id, public, author, attachments) ==
    [id |-> id, public |-> public, author_id |-> Num(author), attachments |-> attachments]

Attachment(id, name, url) ==
    [id |-> id, file_name |-> name, content_url |-> url, content_type |-> "application/pdf",
     size |-> 10]

CommentsOutcomes ==
    {Thrown(ZendeskApiError),
     Returned(<<>>),
     Returned(<<Comment(1, TRUE, 7, Undefined)>>),
     Returned(<<Comment(1, TRUE, 7,
                        Arr(<<Attachment(1, "a.pdf", <<"h", "t", "t", "p", "s", ":", "/", "/", "t", "e", "n", "a", "n", "t", "-", "a", ".", "z", "e", "n", "d", "e", "s", "k", ".", "c", "o", "m", "/", "a", "t", "t", "a", "c", "h", "m", "e", "n", "t", "s", "/", "a", ".", "p", "d", "f">>),
                              Attachment(2, "b.pdf", <<"h", "t", "t", "p", "s", ":", "/", "/", "e", "v", "i", "l", "-", "z", "e", "n", "d", "e", "s", "k", ".", "c", "o", "m", "/", "b", ".", "p", "d", "f">>)>>)),
                Comment(2, FALSE, 8, Undefined)>>),
     Returned(<<Comment(3, TRUE, 7,
                        Arr(<<Attachment(1, "a.pdf", <<"h", "t", "t", "p", "s", ":", "/", "/", "t", "e", "n", "a", "n", "t", "-", "a", ".", "z", "e", "n", "d", "e", "s", "k", ".", "c", "o", "m", "/", "a", "t", "t", "a", "c", "h", "m", "e", "n", "t", "s", "/", "a", ".", "p", "d", "f">>),
                              Attachment(2, "c.png", <<"h", "t", "t", "p", "s", ":", "/", "/", "p", "1", "8", ".", "z", "d", "a", "s", "s", "e", "t", "s", ".", "c", "o", "m", "/", "c", ".", "p", "n", "g">>)>>))>>)}

\* what each download may yield
FetchOutcomes == {[id \in {1, 2} |-> o] : o \in {[threw |-> FALSE, ok |-> TRUE, bytes |-> 10],
                                                [threw |-> FALSE, ok |-> FALSE, bytes |-> 0]}}

User(id, name, email) == [id |-> Num(id), name |-> name, email |-> email]

UsersOutcomes ==
    {Thrown(ZendeskApiError),
     Returned(<<>>),
     Returned(<<User(7, Str("Agent Seven"), Str("seven@a.example")),
                User(8, Undefined, Undefined)>>)}

ZendeskCall(op, zendesk, arg) ==
    [svc |-> "zendesk", op |-> op, baseUrl |-> zendesk.baseUrl, auth |-> zendesk.auth,
     arg |-> arg]

DocCall(docClient, caseNumber, filename) ==
    [svc |-> "doc", op |-> "uploadDocument", client |-> docClient, caseNumber |-> caseNumber,
     filename |-> filename]

AuditCall(key) == [svc |-> "audit", op |-> "put", key |-> key]

InternalServerError == Reply(500, [error |-> "Internal server error"])

\* the tenant module the deployment is linked with
LinkedResolveTenantConfig(brandId) ==
    IF deployment.tenantModule = "tenant.ts" THEN resolveTenantConfig(brandId, store)
    ELSE resolveTenantConfig_src(brandId, store)

LinkedResolveEndpoint(tenantConfig, docEndpoint) ==
    IF deployment.tenantModule = "tenant.ts" THEN resolveEndpoint(tenantConfig, docEndpoint)
    ELSE resolveEndpoint_src(tenantConfig, docEndpoint)

\* body.key != null ? String(body.key) : undefined
BodyString(body, key) ==
    LET v == IF body.t = "obj" THEN Get(body, key) ELSE Undefined
    IN  IF v.t \in {"undefined", "null"} THEN Undefined ELSE Str(ToStringJs(v))

FlowInit ==
    /\ now = Now0 /\ input = None /\ output = None
    /\ deployment \in Deployments /\ store \in Stores
    /\ req = None /\ pc = "idle" /\ local = NoLocals
    /\ calls = <<>> /\ audit = <<>> /\ response = None

Receive ==
    /\ pc = "idle"
    /\ req' \in WebhookRequests \cup AttachmentsRequests
    /\ pc' = "entry"
    /\ UNCHANGED <<now, fnVars, deployment, store, local, calls, audit, response>>

\* the response is sent; nothing else changes
Finish(r) ==
    /\ response' = r
    /\ pc' = "done"
    /\ UNCHANGED <<local, calls, audit>>

\* an outbound call has failed, and r is the answer
Fail(op, r) ==
    /\ response' = r
    /\ pc' = "done"
    /\ local' = [local EXCEPT !.failed = Append(@, op)]
    /\ UNCHANGED <<calls, audit>>

\* the handler is awaited with the tenant config resolved
Enter(body, docEndpoint, tenantConfig) ==
    IF Falsy(tenantConfig) THEN Finish(Reply(404, [error |-> "Unknown tenant"]))
    ELSE /\ local' = [local EXCEPT !.tenantConfig = tenantConfig,
                                   !.docEndpoint = docEndpoint.v, !.body = body]
         /\ pc' = "handler"
         /\ UNCHANGED <<response, calls, audit>>

\* from the extracted fields to the handler; shared by the entry points
Admit(body, brandId, docEndpoint) ==
    IF Falsy(brandId) THEN Finish(Reply(400, [error |-> "Missing brand_id"]))
    ELSE IF Falsy(docEndpoint) THEN Finish(Reply(400, [error |-> "Missing doc_endpoint"]))
    ELSE Enter(body, docEndpoint, LinkedResolveTenantConfig(brandId.v))

\* index.ts getRequestBody: the chunks are counted in bytes as they arrive,
\* and the promise is rejected once they pass maxSize
getRequestBody(r, maxSize) ==
    IF r.sent.bytes > maxSize THEN Thrown([code |-> "body_too_large"]) ELSE Returned(r.rawBody)

\* the Worker's two checks: the Content-Length header, 0 when there is none,
\* and rawBody.length, the number of UTF-16 code units of the text read
workerBodyTooLarge(r) ==
    LET contentLength == IF Falsy(r.contentLength) THEN 0 ELSE ToNumberJs(r.contentLength).v
    IN  contentLength > MAX_BODY_SIZE \/ r.sent.chars > MAX_BODY_SIZE

\* index.ts: JSON.parse and the property reads are inside the try, so a body
\* that is no JSON, or is null, ends in the catch
handleWebhookHttp ==
    /\ pc = "entry" /\ deployment.entry = "node" /\ req.route = "webhook"
    /\ LET parsed == JsonParse(req.rawBody)
       IN  IF getRequestBody(req, MAX_BODY_SIZE).threw THEN Finish(InternalServerError)
           ELSE IF ~parsed.ok \/ parsed.value.t = "null" THEN Finish(InternalServerError)
           ELSE Admit(parsed.value, BodyString(parsed.value, BRAND_ID_KEY),
                      BodyString(parsed.value, DOC_ENDPOINT_KEY))
    /\ UNCHANGED <<now, fnVars, deployment, store, req>>

handleAttachmentsHttp ==
    /\ pc = "entry" /\ deployment.entry = "node" /\ req.route = "attachments"
    /\ LET parsed == JsonParse(req.rawBody)
       IN  IF getRequestBody(req, MAX_BODY_SIZE).threw THEN Finish(InternalServerError)
           ELSE IF ~parsed.ok \/ parsed.value.t = "null" THEN Finish(InternalServerError)
           ELSE Admit(parsed.value, BodyString(parsed.value, BRAND_ID_KEY),
                      BodyString(parsed.value, DOC_ENDPOINT_KEY))
    /\ UNCHANGED <<now, fnVars, deployment, store, req>>

\* the Worker's fetch, on either POST route: parseRequestBody returns null for
\* the same bodies
fetch ==
    /\ pc = "entry" /\ deployment.entry = "worker"
    /\ LET parsed == JsonParse(req.rawBody)
       IN  IF workerBodyTooLarge(req) THEN Finish(Reply(413, [error |-> "Request body too large"]))
           ELSE IF ~parsed.ok \/ parsed.value.t = "null"
           THEN Finish(Reply(400, [error |-> "Invalid JSON body"]))
           ELSE Admit(parsed.value, BodyString(parsed.value, BRAND_ID_KEY),
                      BodyString(parsed.value, DOC_ENDPOINT_KEY))
    /\ UNCHANGED <<now, fnVars, deployment, store, req>>

(***************************************************************************)
(* webhook.ts: handleWebhook, one action per stretch between two awaits    *)
(***************************************************************************)
\* (mutant) the timestamp is not looked at
webhookAuth_SignatureOnly(rawBody, headers, tenantConfig) ==
    IF ~verifyWebhookSignature(rawBody, headers.x_zendesk_webhook_signature_timestamp,
                               headers.x_zendesk_webhook_signature,
                               tenantConfig.zendesk.webhookSecret)
    THEN Reply(401, [error |-> "Invalid webhook signature"])
    ELSE None

\* the two checks that open handleWebhook: the 401 they answer, or None
webhookAuth(rawBody, headers, tenantConfig) ==
    IF ~verifyWebhookSignature(rawBody, headers.x_zendesk_webhook_signature_timestamp,
                               headers.x_zendesk_webhook_signature,
                               tenantConfig.zendesk.webhookSecret)
    THEN Reply(401, [error |-> "Invalid webhook signature"])
    ELSE IF ~isTimestampFresh(headers.x_zendesk_webhook_signature_timestamp,
                              WEBHOOK_TIMESTAMP_TOLERANCE_MS)
    THEN Reply(401, [error |-> "Webhook timestamp expired"])
    ELSE None

\* (mutant) a ticket without brand_id passes
webhookBrandCheck_AbsentPasses(ticket, brandId) ==
    IF ticket.brand_id.t \notin {"undefined", "null"} /\ Str(ToStringJs(ticket.brand_id)) # brandId
    THEN Reply(403, [error |-> "Ticket does not belong to this brand"])
    ELSE None

\* the brand cross-check of handleWebhook: the 403 it answers, or None
webhookBrandCheck(ticket, brandId) ==
    IF ticket.brand_id.t \in {"undefined", "null"}
    THEN Reply(403, [error |-> "Ticket brand_id unavailable"])
    ELSE IF Str(ToStringJs(ticket.brand_id)) # brandId
    THEN Reply(403, [error |-> "Ticket does not belong to this brand"])
    ELSE None

handleWebhook ==
    /\ pc = "handler" /\ req.route = "webhook"
    /\ LET tenantConfig == local.tenantConfig
           denied == webhookAuth(req.rawBody, req.headers, tenantConfig)
           ticket_id == ToNumberJs(Get(local.body, TICKET_ID_KEY))
           ep == LinkedResolveEndpoint(tenantConfig, local.docEndpoint)
           zendesk == ZendeskClient(tenantConfig.zendesk.subdomain, tenantConfig.zendesk.apiToken,
                                    tenantConfig.zendesk.email)
       IN  IF denied # None THEN Finish(denied)
           ELSE IF ~IsInteger(ticket_id) \/ ticket_id.v <= 0
           THEN Finish(Reply(400, [error |-> "Invalid or missing ticket_id"]))
           ELSE IF ep.threw THEN Finish(Reply(400, [error |-> ep.error]))
           ELSE /\ local' = [local EXCEPT !.startTime = now, !.ticket_id = ticket_id,
                                          !.ep = ep.value, !.zendesk = zendesk]
                /\ calls' = Append(calls, ZendeskCall("getTicket", zendesk, ticket_id))
                /\ pc' = "getTicket"
                /\ UNCHANGED <<response, audit>>
    /\ UNCHANGED <<now, fnVars, deployment, store, req>>

WebhookTicketFetched ==
    /\ pc = "getTicket" /\ req.route = "webhook"
    /\ \E outcome \in TicketOutcomes(local.ticket_id.v) :
          IF outcome.threw THEN Fail("getTicket", InternalServerError)
          ELSE LET denied == webhookBrandCheck(outcome.value, local.tenantConfig.brand_id)
               IN  /\ local' = [local EXCEPT !.ticket = outcome.value]
                   /\ IF denied # None
                      THEN response' = denied /\ pc' = "done" /\ UNCHANGED <<calls, audit>>
                      ELSE /\ calls' = Append(calls, ZendeskCall("getTicketComments",
                                                                 local.zendesk, local.ticket_id))
                           /\ pc' = "getTicketComments"
                           /\ UNCHANGED <<response, audit>>
    /\ UNCHANGED <<now, fnVars, deployment, store, req>>

WebhookCommentsFetched ==
    /\ pc = "getTicketComments" /\ req.route = "webhook"
    /\ \E outcome \in CommentsOutcomes :
          IF outcome.threw THEN Fail("getTicketComments", InternalServerError)
          ELSE /\ local' = [local EXCEPT !.comments = outcome.value]
               /\ pc' = "fetchAttachments"
               /\ UNCHANGED <<response, calls, audit>>
    /\ UNCHANGED <<now, fnVars, deployment, store, req>>

\* [...new Set(ids.filter(Boolean))]
RECURSIVE Unique(_)
Unique(ids) ==
    IF Len(ids) = 0 THEN <<>>
    ELSE LET init == Unique(SubSeq(ids, 1, Len(ids) - 1))
             last == ids[Len(ids)]
         IN  IF Falsy(last) \/ \E i \in 1..Len(init) : init[i] = last THEN init
             ELSE Append(init, last)

AuthorIds(comments) == Unique([i \in 1..Len(comments) |-> comments[i].author_id])

\* array.find(test): the first element of the sequence in the set, or Undefined
Find(items, matching) ==
    LET at == {i \in 1..Len(items) : items[i] \in matching}
    IN  IF at = {} THEN Undefined ELSE items[CHOOSE i \in at : \A j \in at : i <= j]

\* u.name || u.email || `User ${u.id}`
UserLabel(u) ==
    IF ~Falsy(u.name) THEN u.name ELSE IF ~Falsy(u.email) THEN u.email
    ELSE Str(<<"U", "s", "e", "r", " ">> \o ToStringJs(u.id))

\* userMap[comment.author_id] || `User ${comment.author_id || 'Unknown'}`
AuthorName(authors, author_id) ==
    LET u == Find(authors, {a \in {authors[i] : i \in 1..Len(authors)} : a.id = author_id})
    IN  IF u # Undefined THEN UserLabel(u)
        ELSE Str(<<"U", "s", "e", "r", " ">>
                 \o (IF Falsy(author_id) THEN <<"U", "n", "k", "n", "o", "w", "n">>
                     ELSE ToStringJs(author_id)))

\* (mutant) the document shows every comment, whatever the tenant's flag
generateTicketPdf_AllComments(ticket, comments, pdfConfig, authors) ==
    [companyName |-> pdfConfig.companyName, ticket |-> ticket.id,
     comments |-> [i \in 1..Len(comments) |->
                      [id |-> comments[i].id,
                       authorName |-> AuthorName(authors, comments[i].author_id),
                       isInternal |-> comments[i].public = FALSE]]]

\* pdf.ts: which comments the document shows, under which author and mark
generateTicketPdf(ticket, comments, pdfConfig, authors) ==
    LET filtered == IF pdfConfig.includeInternalNotes THEN comments
                    ELSE SelectSeq(comments, LAMBDA c : c.public # FALSE)
    IN  [companyName |-> pdfConfig.companyName, ticket |-> ticket.id,
         comments |-> [i \in 1..Len(filtered) |->
                          [id |-> filtered[i].id,
                           authorName |-> AuthorName(authors, filtered[i].author_id),
                           isInternal |-> filtered[i].public = FALSE]]]

DownloadCalls(zendesk, urls) ==
    [i \in 1..Len(urls) |-> ZendeskCall("download", zendesk, urls[i])]

\* (mutant) the first custom field gives the case number, whatever its id
selectCaseNumber_FirstField(ep, ticket, ticket_id) ==
    IF ~Falsy(ep.caseNumberFieldId) /\ ~Falsy(ticket.custom_fields)
       /\ ~Falsy(ticket.custom_fields.v[1].value)
    THEN ToStringJs(ticket.custom_fields.v[1].value)
    ELSE <<"Z", "D", "-">> \o ToStringJs(ticket_id)

\* the case number under which the ticket is archived
selectCaseNumber(ep, ticket, ticket_id) ==
    LET field == IF ~Falsy(ep.caseNumberFieldId) /\ ~Falsy(ticket.custom_fields)
                 THEN Find(ticket.custom_fields.v,
                           {f \in {ticket.custom_fields.v[i] :
                                      i \in 1..Len(ticket.custom_fields.v)} :
                                f.id = ep.caseNumberFieldId})
                 ELSE Undefined
    IN  IF field # Undefined /\ ~Falsy(field.value) THEN ToStringJs(field.value)
        ELSE <<"Z", "D", "-">> \o ToStringJs(ticket_id)

\* handleWebhook from the author names on: the agent's email, the PDF, the
\* archive client, the case number and the upload it starts.  l and cs are the
\* locals and the calls as they stand.
WebhookArchive(l, cs, authors) ==
    LET lastComment == l.comments[Len(l.comments)]
        user == IF Len(l.comments) > 0 /\ ~Falsy(lastComment.author_id)
                THEN Find(authors, {a \in {authors[i] : i \in 1..Len(authors)} :
                                        a.id = lastComment.author_id})
                ELSE Undefined
        solvingAgentEmail == IF user # Undefined /\ ~Falsy(user.email) THEN user.email
                             ELSE Str("Zendesk")
        pdfBuffer == generateTicketPdf(l.ticket, l.comments, l.tenantConfig.pdf, authors)
        docClient == createDocClient(l.ep, solvingAgentEmail)
        caseNumber == selectCaseNumber(l.ep, l.ticket, l.ticket_id)
        uploadFilename == <<"t", "i", "c", "k", "e", "t", "-">> \o ToStringJs(l.ticket_id) \o <<".", "p", "d", "f">>
    IN  IF docClient.threw
        THEN /\ response' = InternalServerError
             /\ pc' = "done"
             /\ local' = [l EXCEPT !.failed = Append(@, "createDocClient")]
             /\ calls' = cs
        ELSE /\ local' = [l EXCEPT !.authors = authors, !.pdfBuffer = pdfBuffer,
                                   !.docClient = docClient.value, !.caseNumber = caseNumber]
             /\ calls' = Append(cs, DocCall(docClient.value, caseNumber, uploadFilename))
             /\ pc' = "uploadDocument"
             /\ UNCHANGED response

WebhookAttachmentsFetched ==
    /\ pc = "fetchAttachments" /\ req.route = "webhook"
    /\ \E fetched \in FetchOutcomes :
          LET r == fetchAttachments(local.comments, fetched, DefaultMaxFiles,
                                    DefaultMaxTotalBytes)
              l == [local EXCEPT !.attachments = r.attachments]
              cs == calls \o DownloadCalls(local.zendesk, r.requests)
              authorIds == AuthorIds(local.comments)
          IN  IF Len(authorIds) > 0
              THEN /\ local' = l
                   /\ calls' = Append(cs, ZendeskCall("getUsersMany", local.zendesk, authorIds))
                   /\ pc' = "getUsersMany"
                   /\ UNCHANGED response
              ELSE WebhookArchive(l, cs, <<>>)
    /\ UNCHANGED <<now, fnVars, deployment, store, req, audit>>

\* (mutant) a failed author lookup ends the request
WebhookUsersResolved_LookupFatal ==
    /\ pc = "getUsersMany"
    /\ \E outcome \in UsersOutcomes :
          IF outcome.threw THEN Fail("getUsersMany", InternalServerError)
          ELSE WebhookArchive(local, calls, outcome.value)
    /\ UNCHANGED <<now, fnVars, deployment, store, req, audit>>

\* a failure to resolve the authors is caught: the names stay unresolved
WebhookUsersResolved ==
    /\ pc = "getUsersMany"
    /\ \E outcome \in UsersOutcomes :
          WebhookArchive(IF outcome.threw
                         THEN [local EXCEPT !.failed = Append(@, "getUsersMany")] ELSE local,
                         calls, IF outcome.threw THEN <<>> ELSE outcome.value)
    /\ UNCHANGED <<now, fnVars, deployment, store, req, audit>>

\* timestamp.replace(/[:.]/g, '-')
DashColonsAndDots(text) == [i \in 1..Len(text) |-> IF text[i] \in {":", "."} THEN "-" ELSE text[i]]

AuditTtlSeconds == 90 * 24 * 60 * 60

\* pdfBuffer.length: the document grows with the comments it shows
PdfLength(pdfBuffer) == 1024 + 128 * Len(pdfBuffer.comments)

\* (mutant) the entry names the ticket by its subject
AuditEntry_WithSubject(l, docEndpoint, at) ==
    [event |-> "ticket_archived", timestamp |-> ToISOString(at), duration_ms |-> at - l.startTime,
     brand_id |-> l.tenantConfig.brand_id,
     source |-> [ticket_id |-> l.ticket_id, ticket_status |-> l.ticket.status,
                 ticket_subject |-> l.ticket.subject,
                 total_comments |-> Len(l.comments),
                 public_comments |-> Len(SelectSeq(l.comments, LAMBDA c : c.public # FALSE)),
                 internal_notes |-> Len(SelectSeq(l.comments, LAMBDA c : c.public = FALSE)),
                 internal_notes_included |-> l.tenantConfig.pdf.includeInternalNotes,
                 total_attachments |-> Len(l.attachments)],
     destination |-> [doc_endpoint |-> docEndpoint, doc_system |-> l.ep.type,
                      case_number |-> l.caseNumber,
                      case_number_source |-> "fallback",
                      pdf_filename |-> <<"t", "i", "c", "k", "e", "t", "-">> \o ToStringJs(l.ticket_id) \o <<".", "p", "d", "f">>,
                      pdf_size_bytes |-> PdfLength(l.pdfBuffer)]]

AuditEntry(l, docEndpoint, at) ==
    [event |-> "ticket_archived", timestamp |-> ToISOString(at), duration_ms |-> at - l.startTime,
     brand_id |-> l.tenantConfig.brand_id,
     source |-> [ticket_id |-> l.ticket_id, ticket_status |-> l.ticket.status,
                 total_comments |-> Len(l.comments),
                 public_comments |-> Len(SelectSeq(l.comments, LAMBDA c : c.public # FALSE)),
                 internal_notes |-> Len(SelectSeq(l.comments, LAMBDA c : c.public = FALSE)),
                 internal_notes_included |-> l.tenantConfig.pdf.includeInternalNotes,
                 total_attachments |-> Len(l.attachments)],
     destination |-> [doc_endpoint |-> docEndpoint, doc_system |-> l.ep.type,
                      case_number |-> l.caseNumber,
                      case_number_source |-> IF StartsWith(l.caseNumber, <<"Z", "D", "-">>)
                                             THEN "fallback" ELSE "custom_field",
                      pdf_filename |-> <<"t", "i", "c", "k", "e", "t", "-">> \o ToStringJs(l.ticket_id) \o <<".", "p", "d", "f">>,
                      pdf_size_bytes |-> PdfLength(l.pdfBuffer)]]

\* audit:${brandId}:${ts}:${ticket_id}
AuditKey(entry) ==
    <<"a", "u", "d", "i", "t", ":">> \o entry.brand_id.v \o <<":">> \o DashColonsAndDots(entry.timestamp) \o <<":">>
    \o ToStringJs(entry.source.ticket_id)

\* ticket:${brandId}:${ticket_id}:${ts}
TicketKey(entry) ==
    <<"t", "i", "c", "k", "e", "t", ":">> \o entry.brand_id.v \o <<":">> \o ToStringJs(entry.source.ticket_id) \o <<":">>
    \o DashColonsAndDots(entry.timestamp)

WebhookArchived(l) ==
    Reply(200, [success |-> TRUE, ticket_id |-> l.ticket_id, brand_id |-> l.tenantConfig.brand_id,
                case_number |-> l.caseNumber, doc_endpoint |-> l.docEndpoint,
                doc_system |-> l.ep.type, duration_ms |-> l.auditEntry.duration_ms])

\* handleWebhook once the upload has returned: the audit entry, and the first
\* put when an audit store is bound
WebhookRecord(uploaded) ==
    LET l == [uploaded EXCEPT !.auditEntry = AuditEntry(uploaded, uploaded.docEndpoint, now)]
    IN  IF deployment.auditStore
        THEN /\ local' = l
             /\ calls' = Append(calls, AuditCall(AuditKey(l.auditEntry)))
             /\ pc' = "auditPut"
             /\ UNCHANGED <<response, audit>>
        ELSE /\ local' = l
             /\ response' = WebhookArchived(l)
             /\ pc' = "done"
             /\ UNCHANGED <<calls, audit>>

\* (mutant) a failed upload is passed over
WebhookUploaded_FailureIgnored ==
    /\ pc = "uploadDocument" /\ req.route = "webhook"
    /\ \E ok \in BOOLEAN :
          WebhookRecord(IF ok THEN local
                        ELSE [local EXCEPT !.failed = Append(@, "uploadDocument")])
    /\ UNCHANGED <<now, fnVars, deployment, store, req>>

WebhookUploaded ==
    /\ pc = "uploadDocument" /\ req.route = "webhook"
    /\ \E ok \in BOOLEAN :
          IF ~ok THEN Fail("uploadDocument", InternalServerError) ELSE WebhookRecord(local)
    /\ UNCHANGED <<now, fnVars, deployment, store, req>>

\* (mutant) a failing put fails the request
AuditEntryPut_Fatal ==
    /\ pc = "auditPut"
    /\ \E ok \in BOOLEAN :
          IF ok
          THEN /\ audit' = Append(audit, [key |-> AuditKey(local.auditEntry),
                                          value |-> local.auditEntry,
                                          expirationTtl |-> AuditTtlSeconds])
               /\ calls' = Append(calls, AuditCall(TicketKey(local.auditEntry)))
               /\ pc' = "auditIndexPut"
               /\ UNCHANGED <<response, local>>
          ELSE Fail("put", InternalServerError)
    /\ UNCHANGED <<now, fnVars, deployment, store, req>>

\* the first put: a failure is caught, and the second put is skipped
AuditEntryPut ==
    /\ pc = "auditPut"
    /\ \E ok \in BOOLEAN :
          IF ok
          THEN /\ audit' = Append(audit, [key |-> AuditKey(local.auditEntry),
                                          value |-> local.auditEntry,
                                          expirationTtl |-> AuditTtlSeconds])
               /\ calls' = Append(calls, AuditCall(TicketKey(local.auditEntry)))
               /\ pc' = "auditIndexPut"
               /\ UNCHANGED <<response, local>>
          ELSE Fail("put", WebhookArchived(local))
    /\ UNCHANGED <<now, fnVars, deployment, store, req>>

AuditIndexPut ==
    /\ pc = "auditIndexPut"
    /\ \E ok \in BOOLEAN :
          IF ok
          THEN /\ audit' = Append(audit, [key |-> TicketKey(local.auditEntry),
                                          value |-> local.auditEntry,
                                          expirationTtl |-> AuditTtlSeconds])
               /\ response' = WebhookArchived(local)
               /\ pc' = "done"
               /\ UNCHANGED <<local, calls>>
          ELSE Fail("put", WebhookArchived(local))
    /\ UNCHANGED <<now, fnVars, deployment, store, req>>

(***************************************************************************)
(* attachments.ts: handleAttachments                                       *)
(***************************************************************************)
\* the brand cross-check of handleAttachments: the 403 it answers, or None
attachmentsBrandCheck(ticket, brandId) ==
    IF ticket.brand_id.t # "undefined" /\ Str(ToStringJs(ticket.brand_id)) # brandId
    THEN Reply(403, [error |-> "Ticket does not belong to this brand"])
    ELSE None

handleAttachments ==
    /\ pc = "handler" /\ req.route = "attachments"
    /\ LET tenantConfig == local.tenantConfig
           ticketId == ToNumberJs(Get(local.body, TICKET_ID_KEY))
           caseNumber == Get(local.body, CASE_NUMBER_KEY)
           ep == LinkedResolveEndpoint(tenantConfig, local.docEndpoint)
           zendesk == ZendeskClient(tenantConfig.zendesk.subdomain, tenantConfig.zendesk.apiToken,
                                    tenantConfig.zendesk.email)
       IN  IF ~verifyApiKey(req.headers, tenantConfig)
           THEN Finish(Reply(401, [error |-> "Invalid or missing API key"]))
           ELSE IF ~IsInteger(ticketId) \/ ticketId.v <= 0
           THEN Finish(Reply(400, [error |-> "Invalid or missing ticket_id"]))
           ELSE IF Falsy(caseNumber) \/ caseNumber.t # "str"
           THEN Finish(Reply(400, [error |-> "Invalid or missing case_number"]))
           ELSE IF ep.threw THEN Finish(Reply(400, [error |-> ep.error]))
           ELSE /\ local' = [local EXCEPT !.startTime = now, !.ticket_id = ticketId,
                                          !.caseNumber = caseNumber.v, !.ep = ep.value,
                                          !.zendesk = zendesk]
                /\ calls' = Append(calls, ZendeskCall("getTicket", zendesk, ticketId))
                /\ pc' = "getTicket"
                /\ UNCHANGED <<response, audit>>
    /\ UNCHANGED <<now, fnVars, deployment, store, req>>

AttachmentsTicketFetched ==
    /\ pc = "getTicket" /\ req.route = "attachments"
    /\ \E outcome \in TicketOutcomes(local.ticket_id.v) :
          IF outcome.threw THEN Fail("getTicket", InternalServerError)
          ELSE LET denied == attachmentsBrandCheck(outcome.value, local.tenantConfig.brand_id)
               IN  /\ local' = [local EXCEPT !.ticket = outcome.value]
                   /\ IF denied # None
                      THEN response' = denied /\ pc' = "done" /\ UNCHANGED <<calls, audit>>
                      ELSE /\ calls' = Append(calls, ZendeskCall("getTicketComments",
                                                                 local.zendesk, local.ticket_id))
                           /\ pc' = "getTicketComments"
                           /\ UNCHANGED <<response, audit>>
    /\ UNCHANGED <<now, fnVars, deployment, store, req>>

AttachmentsCommentsFetched ==
    /\ pc = "getTicketComments" /\ req.route = "attachments"
    /\ \E outcome \in CommentsOutcomes :
          IF outcome.threw THEN Fail("getTicketComments", InternalServerError)
          ELSE /\ local' = [local EXCEPT !.comments = outcome.value]
               /\ pc' = "fetchAttachments"
               /\ UNCHANGED <<response, calls, audit>>
    /\ UNCHANGED <<now, fnVars, deployment, store, req>>

AttachmentUpload(l, att) ==
    [DocCall(l.docClient, l.caseNumber, att.filename) EXCEPT !.op = "uploadDocument"]

AttachmentsFetched ==
    /\ pc = "fetchAttachments" /\ req.route = "attachments"
    /\ \E fetched \in FetchOutcomes :
          LET r == fetchAttachments(local.comments, fetched, DefaultMaxFiles,
                                    DefaultMaxTotalBytes)
              cs == calls \o DownloadCalls(local.zendesk, r.requests)
              docClient == createDocClient(local.ep, Undefined)
              l == [local EXCEPT !.attachments = r.attachments, !.left = r.attachments,
                                 !.docClient = IF docClient.threw THEN None ELSE docClient.value,
                                 !.failed = IF Len(r.attachments) > 0 /\ docClient.threw
                                            THEN Append(@, "createDocClient") ELSE @]
          IN  /\ calls' = IF Len(r.attachments) = 0 \/ docClient.threw THEN cs
                          ELSE Append(cs, AttachmentUpload(l, r.attachments[1]))
              /\ local' = l
              /\ IF Len(r.attachments) = 0
                 THEN /\ response' = Reply(200, [success |-> TRUE, ticket_id |-> local.ticket_id,
                                                 brand_id |-> local.tenantConfig.brand_id,
                                                 case_number |-> local.caseNumber,
                                                 attachments_forwarded |-> 0,
                                                 duration_ms |-> now - local.startTime])
                      /\ pc' = "done"
                 ELSE IF docClient.threw
                 THEN response' = InternalServerError /\ pc' = "done"
                 ELSE pc' = "forward" /\ UNCHANGED response
    /\ UNCHANGED <<now, fnVars, deployment, store, req, audit>>

\* what the archive answers a failed upload with
BackendBody == <<"d", "b", ":", " ", "r", "e", "l", "a", "t", "i", "o", "n", " ", "c", "a", "s", "e", "s", " ", "l", "o", "c", "k", "e", "d">>

\* the ways uploadDocument fails: the token is refused, or the upload is
ArchiveErrors(system) ==
    {[code |-> "auth_failed", system |-> system, status |-> 401],
     [code |-> "upload_failed", system |-> system, status |-> 500, errorText |-> BackendBody]}

\* the message of such an error
ArchiveErrorMessage(err) ==
    (IF err.system = "gopro" THEN <<"G", "o", "P", "r", "o">> ELSE <<"O", "n", "e", "S", "y", "s", "t", "e", "m", "s">>)
    \o (IF err.code = "auth_failed" THEN <<" ", "a", "u", "t", "h", " ", "f", "a", "i", "l", "e", "d", ":", " ">> \o IntText(err.status)
        ELSE <<" ", "u", "p", "l", "o", "a", "d", " ", "f", "a", "i", "l", "e", "d", ":", " ">> \o IntText(err.status) \o <<" ", "-", " ">> \o err.errorText)

UploadOutcomes(system) == {Returned(TRUE)} \cup {Thrown(e) : e \in ArchiveErrors(system)}

\* the answer of handleAttachments once the loop has ended; errors is
\* undefined, and so left out of the body, when there is none
AttachmentsForwarded(l) ==
    LET body == [success |-> Len(l.errors) = 0,
                 ticket_id |-> l.ticket_id,
                 brand_id |-> l.tenantConfig.brand_id,
                 case_number |-> l.caseNumber,
                 doc_endpoint |-> l.docEndpoint,
                 doc_system |-> l.ep.type,
                 attachments_total |-> Len(l.attachments),
                 attachments_forwarded |-> l.forwarded,
                 duration_ms |-> now - l.startTime]
    IN  Reply(200, IF Len(l.errors) > 0 THEN body @@ [errors |-> l.errors] ELSE body)

\* the locals after the upload of the first attachment left has ended
AfterUpload(l, outcome) ==
    [l EXCEPT !.left = Tail(@),
              !.uploads = Append(@, [filename |-> l.left[1].filename, ok |-> ~outcome.threw]),
              !.failed = IF outcome.threw THEN Append(@, "uploadDocument") ELSE @,
              !.forwarded = IF outcome.threw THEN @ ELSE @ + 1,
              !.errors = IF outcome.threw
                         THEN Append(@, [filename |-> l.left[1].filename,
                                         error |-> ArchiveErrorMessage(outcome.error)])
                         ELSE @]

\* (mutant) the first failed upload ends the loop
AttachmentForwarded_StopAtFailure ==
    /\ pc = "forward"
    /\ \E outcome \in UploadOutcomes(local.docClient.type) :
          LET l == AfterUpload(local, outcome)
          IN  /\ local' = l
              /\ IF Len(l.left) > 0 /\ ~outcome.threw
                 THEN /\ calls' = Append(calls, AttachmentUpload(l, l.left[1]))
                      /\ UNCHANGED <<pc, response>>
                 ELSE /\ response' = AttachmentsForwarded(l)
                      /\ pc' = "done"
                      /\ UNCHANGED calls
    /\ UNCHANGED <<now, fnVars, deployment, store, req, audit>>

\* one turn of the forwarding loop: the upload of the first attachment left has
\* ended, well or not, and the next one starts or the report is sent
AttachmentForwarded ==
    /\ pc = "forward"
    /\ \E outcome \in UploadOutcomes(local.docClient.type) :
          LET l == AfterUpload(local, outcome)
          IN  /\ local' = l
              /\ IF Len(l.left) > 0
                 THEN /\ calls' = Append(calls, AttachmentUpload(l, l.left[1]))
                      /\ UNCHANGED <<pc, response>>
                 ELSE /\ response' = AttachmentsForwarded(l)
                      /\ pc' = "done"
                      /\ UNCHANGED calls
    /\ UNCHANGED <<now, fnVars, deployment, store, req, audit>>

Next ==
    \/ Receive
    \/ handleWebhookHttp
    \/ handleAttachmentsHttp
    \/ fetch
    \/ handleWebhook
    \/ WebhookTicketFetched
    \/ WebhookCommentsFetched
    \/ WebhookAttachmentsFetched
    \/ WebhookUsersResolved
    \/ WebhookUploaded
    \/ AuditEntryPut
    \/ AuditIndexPut
    \/ handleAttachments
    \/ AttachmentsTicketFetched
    \/ AttachmentsCommentsFetched
    \/ AttachmentsFetched
    \/ AttachmentForwarded

Spec == FlowInit /\ [][Next]_vars

(***************************************************************************)
(* Function-level specification of fetchAttachments.  A ticket carries up  *)
(* to MaxAttachments attachments over its comments; each download yields   *)
(* a number of bytes or fails; the caps are the defaults or small ones,    *)
(* so that they are met.  A content_url is described by what it is: its    *)
(* scheme and the labels of its host.                                     *)
(***************************************************************************)
MaxAttachments == 3

ZendeskUrl ==
    [parses |-> TRUE, https |-> TRUE, labels |-> <<"tenant-a", "zendesk", "com">>,
      text |-> <<"h", "t", "t", "p", "s", ":", "/", "/", "t", "e", "n", "a", "n", "t", "-", "a", ".", "z", "e", "n", "d", "e", "s", "k", ".", "c", "o", "m", "/", "a", "t", "t", "a", "c", "h", "m", "e", "n", "t", "s", "/", "a", ".", "p", "d", "f">>]
EvilUrl ==
    [parses |-> TRUE, https |-> TRUE, labels |-> <<"evil-zendesk", "com">>,
      text |-> <<"h", "t", "t", "p", "s", ":", "/", "/", "e", "v", "i", "l", "-", "z", "e", "n", "d", "e", "s", "k", ".", "c", "o", "m", "/", "b", ".", "p", "d", "f">>]

\* the content_url values of the attachments on a ticket
ContentUrls ==
    {ZendeskUrl, EvilUrl,
     [parses |-> TRUE, https |-> TRUE, labels |-> <<"p18", "zdassets", "com">>,
      text |-> <<"h", "t", "t", "p", "s", ":", "/", "/", "p", "1", "8", ".", "z", "d", "a", "s", "s", "e", "t", "s", ".", "c", "o", "m", "/", "c", ".", "p", "n", "g">>],
     [parses |-> TRUE, https |-> FALSE, labels |-> <<"tenant-a", "zendesk", "com">>,
      text |-> <<"h", "t", "t", "p", ":", "/", "/", "t", "e", "n", "a", "n", "t", "-", "a", ".", "z", "e", "n", "d", "e", "s", "k", ".", "c", "o", "m", "/", "a", ".", "p", "d", "f">>],
     [parses |-> TRUE, https |-> TRUE, labels |-> <<"zendesk", "com", "evil", "net">>,
      text |-> <<"h", "t", "t", "p", "s", ":", "/", "/", "z", "e", "n", "d", "e", "s", "k", ".", "c", "o", "m", ".", "e", "v", "i", "l", ".", "n", "e", "t", "/", "a", ".", "p", "d", "f">>],
     [parses |-> TRUE, https |-> TRUE, labels |-> <<"zendesk", "com">>,
      text |-> <<"h", "t", "t", "p", "s", ":", "/", "/", "z", "e", "n", "d", "e", "s", "k", ".", "c", "o", "m", "/", "a", ".", "p", "d", "f">>],
     [parses |-> TRUE, https |-> TRUE, labels |-> <<"tenant-a", "zendesk", "com">>,
      text |-> <<"h", "t", "t", "p", "s", ":", "/", "/", "t", "e", "n", "a", "n", "t", "-", "a", ".", "z", "e", "n", "d", "e", "s", "k", ".", "c", "o", "m", ":", "8", "4", "4", "3", "/", "a", ".", "p", "d", "f">>],
     [parses |-> TRUE, https |-> TRUE, labels |-> <<"tenant-a", "zendesk", "org">>,
      text |-> <<"h", "t", "t", "p", "s", ":", "/", "/", "t", "e", "n", "a", "n", "t", "-", "a", ".", "z", "e", "n", "d", "e", "s", "k", ".", "o", "r", "g", "/", "a", ".", "p", "d", "f">>],
     [parses |-> TRUE, https |-> TRUE, labels |-> <<"evilzdassets", "com">>,
      text |-> <<"h", "t", "t", "p", "s", ":", "/", "/", "e", "v", "i", "l", "z", "d", "a", "s", "s", "e", "t", "s", ".", "c", "o", "m", "/", "a", ".", "p", "d", "f">>],
     [parses |-> FALSE, https |-> FALSE, labels |-> <<>>,
      text |-> <<"n", "o", "t", " ", "a", " ", "u", "r", "l">>]}

\* a download is rejected (fetch throws), answered with a non-OK status, or
\* yields a number of bytes
DownloadOutcomes == {[threw |-> TRUE, ok |-> FALSE, bytes |-> 0],
                     [threw |-> FALSE, ok |-> FALSE, bytes |-> 0],
                     [threw |-> FALSE, ok |-> TRUE, bytes |-> 10],
                     [threw |-> FALSE, ok |-> TRUE, bytes |-> 20]}

\* the caps fetchAttachments is called with: maxFiles, maxTotalBytes
FetchCaps == {<<DefaultMaxFiles, DefaultMaxTotalBytes>>, <<1, DefaultMaxTotalBytes>>,
              <<2, DefaultMaxTotalBytes>>, <<DefaultMaxFiles, 20>>, <<DefaultMaxFiles, 25>>,
              <<2, 25>>}

\* the comments of a ticket whose attachments have these urls: the first
\* split of them on the first comment, none on the second, the rest on the third
FetchComments(urls, split) ==
    LET att(i) == Attachment(i, <<"f">> \o IntText(i), urls[i].text)
    IN  <<Comment(1, TRUE, 7, Arr([i \in 1..split |-> att(i)])),
          Comment(2, TRUE, 7, Undefined),
          Comment(3, FALSE, 8, Arr([i \in 1..(Len(urls) - split) |-> att(split + i)]))>>

FetchInit ==
    /\ now = Now0 /\ output = None /\ FlowIdle
    /\ \/ \E n \in 0..MaxAttachments :
             \E urls \in [1..n -> {ZendeskUrl, EvilUrl}], fetched \in [1..n -> DownloadOutcomes],
                split \in 0..n, caps \in FetchCaps :
                input = [fn |-> "fetchAttachments", urls |-> urls, split |-> split,
                         fetched |-> fetched, maxFiles |-> caps[1],
                         maxTotalBytes |-> caps[2]]
       \/ \E urls \in [1..2 -> ContentUrls] :
             input = [fn |-> "fetchAttachments", urls |-> urls, split |-> 1,
                      fetched |-> [i \in 1..2 |-> [threw |-> FALSE, ok |-> TRUE, bytes |-> 10]],
                      maxFiles |-> DefaultMaxFiles, maxTotalBytes |-> DefaultMaxTotalBytes]

CallFetchAttachments ==
    /\ input.fn = "fetchAttachments" /\ output = None
    /\ output' = fetchAttachments(FetchComments(input.urls, input.split), input.fetched,
                                  input.maxFiles, input.maxTotalBytes)
    /\ UNCHANGED <<now, input>> /\ UNCHANGED flowVars

FetchNext == CallFetchAttachments

SpecFetch == FetchInit /\ [][FetchNext]_vars

(***************************************************************************)
(* The HTML parser of pdf.ts.  parseHtmlToBlocks is applied to markup put  *)
(* together from a few tags and texts; the text at the i-th place is the   *)
(* i-th letter, so that a run of the result tells which text it came from. *)
(***************************************************************************)
HtmlSpace == {" ", "\t", "\n", "\r"}

\* s.indexOf(c, from): the first position from `from` on that holds c, or 0
IndexOf(s, c, from) ==
    LET i == FirstIn(SubSeq(s, from, Len(s)), {c})
    IN  IF i = 0 THEN 0 ELSE from + i - 1

\* the lower-case word stands at position i of s, in either case
MatchAt(s, i, word) ==
    /\ i + Len(word) - 1 <= Len(s)
    /\ ToLower(SubSeq(s, i, i + Len(word) - 1)) = word

\* the first position from `from` on where the word stands, or 0
SearchFrom(s, word, from) ==
    IF \E i \in from..Len(s) : MatchAt(s, i, word)
    THEN CHOOSE i \in from..Len(s) :
            MatchAt(s, i, word) /\ \A j \in from..(i - 1) : ~MatchAt(s, j, word)
    ELSE 0

\* html.replace(/<open[\s\S]*?close/gi, '')
RECURSIVE removeElements(_, _, _)
removeElements(html, open, close) ==
    LET i == SearchFrom(html, open, 1)
        j == IF i = 0 THEN 0 ELSE SearchFrom(html, close, i + Len(open))
    IN  IF j = 0 THEN html
        ELSE SubSeq(html, 1, i - 1)
             \o removeElements(SubSeq(html, j + Len(close), Len(html)), open, close)

SCRIPT_OPEN == <<"<", "s", "c", "r", "i", "p", "t">>
SCRIPT_CLOSE == <<"<", "/", "s", "c", "r", "i", "p", "t", ">">>
STYLE_OPEN == <<"<", "s", "t", "y", "l", "e">>
STYLE_CLOSE == <<"<", "/", "s", "t", "y", "l", "e", ">">>

\* s.trim()
Trim(s) ==
    LET inked == {i \in 1..Len(s) : s[i] \notin HtmlSpace}
    IN  IF inked = {} THEN <<>>
        ELSE SubSeq(s, CHOOSE i \in inked : \A j \in inked : i <= j,
                       CHOOSE i \in inked : \A j \in inked : j <= i)

\* tagStr.replace(/\/$/, '').split(/[\s/]/)[0].toLowerCase()
TagName(tagStr) ==
    LET bare == IF Len(tagStr) > 0 /\ tagStr[Len(tagStr)] = "/"
                THEN SubSeq(tagStr, 1, Len(tagStr) - 1) ELSE tagStr
        cut == FirstIn(bare, HtmlSpace \cup {"/"})
    IN  ToLower(IF cut = 0 THEN bare ELSE SubSeq(bare, 1, cut - 1))

\* the first position from i on that holds no white space
SkipSpace(s, i) ==
    LET k == {j \in i..Len(s) : s[j] \notin HtmlSpace}
    IN  IF k = {} THEN Len(s) + 1 ELSE CHOOSE j \in k : \A m \in k : j <= m

\* fullTag.match(/href\s*=\s*["']([^"']*)["']/i): the link's target, or null
HrefAt(fullTag, h) ==
    LET eq == SkipSpace(fullTag, h + 4)
        quote == SkipSpace(fullTag, eq + 1)
        close == IF quote + 1 > Len(fullTag) THEN 0
                 ELSE FirstIn(SubSeq(fullTag, quote + 1, Len(fullTag)), {"\"", "'"})
    IN  IF /\ MatchAt(fullTag, h, <<"h", "r", "e", "f">>)
           /\ eq <= Len(fullTag) /\ fullTag[eq] = "="
           /\ quote <= Len(fullTag) /\ fullTag[quote] \in {"\"", "'"}
           /\ close # 0
        THEN Str(SubSeq(fullTag, quote + 1, quote + close - 1))
        ELSE Null

HrefMatch(fullTag) ==
    LET hits == {h \in 1..Len(fullTag) : HrefAt(fullTag, h) # Null}
    IN  IF hits = {} THEN Null
        ELSE HrefAt(fullTag, CHOOSE h \in hits : \A k \in hits : h <= k)

\* the parser's variables before the scan
ParserStart ==
    [blocks |-> <<>>, currentBlock |-> Null, bold |-> FALSE, italic |-> FALSE,
     listStack |-> <<>>, blockquoteDepth |-> 0, linkHref |-> Null]

ensureBlock(st) ==
    IF st.currentBlock = Null
    THEN [st EXCEPT !.currentBlock =
             [type |-> "paragraph", runs |-> <<>>,
              indent |-> (Len(st.listStack) * 15) + (st.blockquoteDepth * 20)]]
    ELSE st

addText(st, text) ==
    IF Len(text) = 0 THEN st
    ELSE [ensureBlock(st) EXCEPT !.currentBlock.runs =
             Append(@, [text |-> text, bold |-> st.bold, italic |-> st.italic])]

flushBlock(st) ==
    [st EXCEPT !.blocks = IF st.currentBlock # Null /\ Len(st.currentBlock.runs) > 0
                          THEN Append(@, st.currentBlock) ELSE @,
               !.currentBlock = Null]

IsHeadingTag(tagName) ==
    Len(tagName) = 2 /\ tagName[1] = "h" /\ tagName[2] \in {"1", "2", "3", "4", "5", "6"}

\* the character U+2022
BULLET == "u2022"

\* <li>: a new list-item block, led by the bullet or the ordinal of the
\* innermost open list
openListItem(st) ==
    LET flushed == ensureBlock(flushBlock(st))
        depth == Len(st.listStack)
        item == [flushed EXCEPT !.currentBlock.type = "list-item",
                                !.currentBlock.indent = depth * 15]
    IN  IF depth = 0 THEN item
        ELSE LET index == st.listStack[depth].index + 1
                 prefix == IF st.listStack[depth].type = <<"o", "l">>
                           THEN IntText(index) \o <<".", " ">> ELSE <<BULLET, " ">>
             IN  [item EXCEPT !.listStack[depth].index = index,
                              !.currentBlock.runs =
                                  Append(@, [text |-> prefix, bold |-> FALSE,
                                             italic |-> FALSE])]

\* (mutant) headings leave the running bold flag alone
openHeading_Plain(st) ==
    [ensureBlock(flushBlock(st)) EXCEPT !.currentBlock.type = "heading"]

\* <h1> to <h6>: a new heading block, and bold from here on
openHeading(st) ==
    [ensureBlock(flushBlock(st)) EXCEPT !.currentBlock.type = "heading", !.bold = TRUE]

\* the body of the scan's loop for one tag
applyTag(st, fullTag) ==
    LET isClosing == StartsWith(fullTag, <<"/">>)
        tagStr == IF isClosing THEN Tail(fullTag) ELSE fullTag
        tagName == TagName(tagStr)
    IN  IF tagName \in {<<"p">>, <<"d", "i", "v">>, <<"b", "r">>} THEN flushBlock(st)
        ELSE IF IsHeadingTag(tagName)
        THEN IF ~isClosing THEN openHeading(st)
             ELSE flushBlock([st EXCEPT !.bold = FALSE])
        ELSE IF tagName = <<"b", "l", "o", "c", "k", "q", "u", "o", "t", "e">>
        THEN [flushBlock(st) EXCEPT !.blockquoteDepth =
                 IF ~isClosing THEN @ + 1 ELSE IF @ > 0 THEN @ - 1 ELSE 0]
        ELSE IF tagName \in {<<"u", "l">>, <<"o", "l">>}
        THEN [flushBlock(st) EXCEPT !.listStack =
                 IF ~isClosing THEN Append(@, [type |-> tagName, index |-> 0])
                 ELSE IF Len(@) = 0 THEN @ ELSE SubSeq(@, 1, Len(@) - 1)]
        ELSE IF tagName = <<"l", "i">>
        THEN IF ~isClosing THEN openListItem(st) ELSE flushBlock(st)
        ELSE IF tagName \in {<<"s", "t", "r", "o", "n", "g">>, <<"b">>}
        THEN [st EXCEPT !.bold = ~isClosing]
        ELSE IF tagName \in {<<"e", "m">>, <<"i">>}
        THEN [st EXCEPT !.italic = ~isClosing]
        ELSE IF tagName = <<"a">>
        THEN IF ~isClosing THEN [st EXCEPT !.linkHref = HrefMatch(fullTag)]
             ELSE IF ~Falsy(st.linkHref)
             THEN [addText(st, <<" ", "(">> \o st.linkHref.v \o <<")">>)
                      EXCEPT !.linkHref = Null]
             ELSE st
        ELSE IF tagName \in {<<"t", "d">>, <<"t", "h">>}
        THEN IF isClosing THEN addText(st, <<" ", " ">>) ELSE st
        ELSE IF tagName = <<"t", "r">>
        THEN IF isClosing THEN flushBlock(st) ELSE st
        ELSE st

\* the scan: while (pos < cleaned.length)
RECURSIVE scan(_, _, _)
scan(cleaned, pos, st) ==
    IF pos > Len(cleaned) THEN st
    ELSE IF cleaned[pos] = "<"
    THEN LET tagEnd == IndexOf(cleaned, ">", pos)
         IN  IF tagEnd = 0 THEN addText(st, SubSeq(cleaned, pos, Len(cleaned)))
             ELSE scan(cleaned, tagEnd + 1,
                       applyTag(st, Trim(SubSeq(cleaned, pos + 1, tagEnd - 1))))
    ELSE LET nextTag == IndexOf(cleaned, "<", pos)
             textEnd == IF nextTag = 0 THEN Len(cleaned) + 1 ELSE nextTag
         IN  scan(cleaned, textEnd, addText(st, SubSeq(cleaned, pos, textEnd - 1)))

\* text.replace(/from/g, to)
RECURSIVE ReplaceAll(_, _, _)
ReplaceAll(text, from, to) ==
    LET hits == {h \in 1..(Len(text) - Len(from) + 1) :
                    SubSeq(text, h, h + Len(from) - 1) = from}
        i == IF hits = {} THEN 0 ELSE CHOOSE h \in hits : \A m \in hits : h <= m
    IN  IF i = 0 THEN text
        ELSE SubSeq(text, 1, i - 1) \o to
             \o ReplaceAll(SubSeq(text, i + Len(from), Len(text)), from, to)

\* the entities decodeEntities knows, in the order it replaces them
Entities == <<
    <<<<"&", "n", "b", "s", "p", ";">>, <<" ">>>>,
    <<<<"&", "a", "m", "p", ";">>, <<"&">>>>,
    <<<<"&", "l", "t", ";">>, <<"<">>>>,
    <<<<"&", "g", "t", ";">>, <<">">>>>,
    <<<<"&", "q", "u", "o", "t", ";">>, <<"\"">>>>,
    <<<<"&", "#", "3", "9", ";">>, <<"'">>>>,
    <<<<"&", "#", "x", "2", "7", ";">>, <<"'">>>>,
    <<<<"&", "#", "x", "2", "F", ";">>, <<"/">>>> >>

RECURSIVE decodeKnown(_, _)
decodeKnown(text, k) ==
    IF k > Len(Entities) THEN text
    ELSE decodeKnown(ReplaceAll(text, Entities[k][1], Entities[k][2]), k + 1)

\* text.replace(/&[#\w]+;/g, ' ')
RECURSIVE decodeOther(_)
decodeOther(text) ==
    LET word(i) == LET stop == {j \in (i + 1)..Len(text) :
                                   ~(IsAlnum(text[j]) \/ text[j] \in {"#", "_"})}
                   IN  IF stop = {} THEN 0 ELSE CHOOSE j \in stop : \A m \in stop : j <= m
        hits == {i \in 1..Len(text) :
                    text[i] = "&" /\ word(i) > i + 1 /\ text[word(i)] = ";"}
    IN  IF hits = {} THEN text
        ELSE LET i == CHOOSE h \in hits : \A m \in hits : h <= m
             IN  SubSeq(text, 1, i - 1) \o <<" ">>
                 \o decodeOther(SubSeq(text, word(i) + 1, Len(text)))

decodeEntities(text) == decodeOther(decodeKnown(text, 1))

\* text.replace(/\s+/g, ' ')
RECURSIVE collapseSpace(_)
collapseSpace(text) ==
    IF Len(text) = 0 THEN text
    ELSE IF text[1] \in HtmlSpace
    THEN <<" ">> \o collapseSpace(SubSeq(text, SkipSpace(text, 1), Len(text)))
    ELSE <<text[1]>> \o collapseSpace(Tail(text))

\* the blocks as the scan of the markup leaves them
scanBlocks(html) ==
    flushBlock(scan(removeElements(removeElements(html, SCRIPT_OPEN, SCRIPT_CLOSE),
                                   STYLE_OPEN, STYLE_CLOSE), 1, ParserStart)).blocks

\* parseHtmlToBlocks(html): the blocks of a comment's body
parseHtmlToBlocks(html) ==
    IF Falsy(html) THEN <<>>
    ELSE LET blocks == scanBlocks(html.v)
         IN  [b \in 1..Len(blocks) |->
                [blocks[b] EXCEPT !.runs =
                    [r \in 1..Len(@) |->
                        [@[r] EXCEPT !.text = collapseSpace(decodeEntities(@))]]]]

MaxTokens == 4

Letters == <<"a", "b", "c", "d", "e", "f">>

\* the tags and texts the markup is put together from, by the matter under
\* study: nesting, removed elements, headings, tables, entities
TokenKinds ==
    [nesting |-> {"text", "<ul>", "<ol>", "</ul>", "<blockquote>", "</blockquote>",
                  "<li>", "<h2>"},
     removal |-> {"text", "<script>", "</script>", "</script >", "<STYLE>", "</style>",
                  "<b>"},
     heading |-> {"text", "text&amp;", "<h1>", "</h1>", "<b>", "</b>", "<p>"},
     table |-> {"text", "<tr>", "</tr>", "<td>", "</td>", "</th>", "<b>"},
     entities |-> {"text", "&amp;", "lt;", "&bogus;", "&#x2f;", "&#x2F;", "<b>"}]

\* the characters of the token at the i-th place
TokenText(kind, i) ==
    CASE kind = "text" -> <<Letters[i]>>
      [] kind = "text&amp;" -> <<Letters[i], "&", "a", "m", "p", ";">>
      [] kind = "<ul>" -> <<"<", "u", "l", ">">>
      [] kind = "<ol>" -> <<"<", "o", "l", ">">>
      [] kind = "</ul>" -> <<"<", "/", "u", "l", ">">>
      [] kind = "<blockquote>" -> <<"<", "b", "l", "o", "c", "k", "q", "u", "o", "t", "e", ">">>
      [] kind = "</blockquote>" -> <<"<", "/", "b", "l", "o", "c", "k", "q", "u", "o", "t", "e", ">">>
      [] kind = "<li>" -> <<"<", "l", "i", ">">>
      [] kind = "<h2>" -> <<"<", "h", "2", ">">>
      [] kind = "<script>" -> <<"<", "s", "c", "r", "i", "p", "t", ">">>
      [] kind = "</script>" -> <<"<", "/", "s", "c", "r", "i", "p", "t", ">">>
      [] kind = "</script >" -> <<"<", "/", "s", "c", "r", "i", "p", "t", " ", ">">>
      [] kind = "<STYLE>" -> <<"<", "S", "T", "Y", "L", "E", ">">>
      [] kind = "</style>" -> <<"<", "/", "s", "t", "y", "l", "e", ">">>
      [] kind = "<b>" -> <<"<", "b", ">">>
      [] kind = "</b>" -> <<"<", "/", "b", ">">>
      [] kind = "<h1>" -> <<"<", "h", "1", ">">>
      [] kind = "</h1>" -> <<"<", "/", "h", "1", ">">>
      [] kind = "<p>" -> <<"<", "p", ">">>
      [] kind = "<tr>" -> <<"<", "t", "r", ">">>
      [] kind = "</tr>" -> <<"<", "/", "t", "r", ">">>
      [] kind = "<td>" -> <<"<", "t", "d", ">">>
      [] kind = "</td>" -> <<"<", "/", "t", "d", ">">>
      [] kind = "</th>" -> <<"<", "/", "t", "h", ">">>
      [] kind = "&amp;" -> <<"&", "a", "m", "p", ";">>
      [] kind = "lt;" -> <<"l", "t", ";">>
      [] kind = "&bogus;" -> <<"&", "b", "o", "g", "u", "s", ";">>
      [] kind = "&#x2f;" -> <<"&", "#", "x", "2", "f", ";">>
      [] kind = "&#x2F;" -> <<"&", "#", "x", "2", "F", ";">>

RECURSIVE Markup(_, _)
Markup(tokens, i) ==
    IF i > Len(tokens) THEN <<>> ELSE TokenText(tokens[i], i) \o Markup(tokens, i + 1)

HtmlInit ==
    /\ now = Now0 /\ output = None /\ FlowIdle
    /\ \E matter \in DOMAIN TokenKinds, n \in 0..MaxTokens :
          \E tokens \in [1..n -> TokenKinds[matter]] :
             input = [fn |-> "parseHtmlToBlocks", matter |-> matter, tokens |-> tokens,
                      html |-> Str(Markup(tokens, 1))]

CallParseHtmlToBlocks ==
    /\ input.fn = "parseHtmlToBlocks" /\ output = None
    /\ output' = [blocks |-> parseHtmlToBlocks(input.html)]
    /\ UNCHANGED <<now, input>> /\ UNCHANGED flowVars

HtmlNext == CallParseHtmlToBlocks

SpecHtml == HtmlInit /\ [][HtmlNext]_vars

(***************************************************************************)
(* Wrapping styled runs into lines (wrapStyledRuns of pdf.ts).  The width  *)
(* of a text is jsPDF's: here one unit a character, two in a bold font.    *)
(***************************************************************************)
\* doc.getTextWidth(part) in the font of the run
getTextWidth(part, bold) == IF bold THEN 2 * Len(part) ELSE Len(part)

\* the last place of the stretch of spaces, or of other characters, at i
StretchEnd(text, i) ==
    LET turns == {j \in i..Len(text) : (text[j] = " ") # (text[i] = " ")}
    IN  IF turns = {} THEN Len(text) ELSE (CHOOSE j \in turns : \A k \in turns : j <= k) - 1

RECURSIVE StretchesFrom(_, _)
StretchesFrom(text, i) ==
    IF i > Len(text) THEN <<>>
    ELSE <<SubSeq(text, i, StretchEnd(text, i))>> \o StretchesFrom(text, StretchEnd(text, i) + 1)

\* run.text.split(/( +)/): the words and the stretches of spaces between
\* them, with an empty part where the text begins or ends with spaces
splitSpaces(text) ==
    IF Len(text) = 0 THEN << <<>> >>
    ELSE (IF text[1] = " " THEN << <<>> >> ELSE <<>>)
         \o StretchesFrom(text, 1)
         \o (IF text[Len(text)] = " " THEN << <<>> >> ELSE <<>>)

WrapStart == [lines |-> <<>>, currentLine |-> <<>>, currentWidth |-> 0]

\* (mutant) the line breaks before blank parts too, and drops them
wrapPart_DropBlank(w, part, run, maxWidth) ==
    IF Len(part) = 0 THEN w
    ELSE LET partWidth == getTextWidth(part, run.bold)
             breaks == w.currentWidth + partWidth > maxWidth /\ Len(w.currentLine) > 0
             at == IF breaks
                   THEN [lines |-> Append(w.lines, w.currentLine),
                         currentLine |-> <<>>, currentWidth |-> 0]
                   ELSE w
         IN  IF breaks /\ Trim(part) = <<>> THEN at
             ELSE [at EXCEPT
                     !.currentLine = Append(@, [text |-> part, bold |-> run.bold,
                                                italic |-> run.italic]),
                     !.currentWidth = @ + partWidth]

\* the body of the loop over the parts of a run
wrapPart(w, part, run, maxWidth) ==
    IF Len(part) = 0 THEN w
    ELSE LET partWidth == getTextWidth(part, run.bold)
             breaks == /\ w.currentWidth + partWidth > maxWidth
                       /\ Len(w.currentLine) > 0
                       /\ Trim(part) # <<>>
             at == IF breaks
                   THEN [lines |-> Append(w.lines, w.currentLine),
                         currentLine |-> <<>>, currentWidth |-> 0]
                   ELSE w
         IN  [at EXCEPT
                !.currentLine = Append(@, [text |-> part, bold |-> run.bold,
                                           italic |-> run.italic]),
                !.currentWidth = @ + partWidth]

RECURSIVE wrapParts(_, _, _, _)
wrapParts(w, parts, run, maxWidth) ==
    IF parts = <<>> THEN w
    ELSE wrapParts(wrapPart(w, Head(parts), run, maxWidth), Tail(parts), run, maxWidth)

RECURSIVE wrapRuns(_, _, _)
wrapRuns(w, runs, maxWidth) ==
    IF runs = <<>> THEN w
    ELSE wrapRuns(wrapParts(w, splitSpaces(Head(runs).text), Head(runs), maxWidth),
                  Tail(runs), maxWidth)

EMPTY_LINE == <<[text |-> <<>>, bold |-> FALSE, italic |-> FALSE]>>

wrapStyledRuns(runs, maxWidth) ==
    LET lines == CHOOSE ls \in {IF Len(w.currentLine) > 0 THEN Append(w.lines, w.currentLine)
                                ELSE w.lines : w \in {wrapRuns(WrapStart, runs, maxWidth)}} : TRUE
    IN  IF Len(lines) > 0 THEN lines ELSE <<EMPTY_LINE>>

MaxRuns == 2

RunTexts ==
    {<<>>, <<"a">>, <<"a", "b">>, <<"a", " ", "b">>, <<"a", "b", " ", " ", "c">>,
     <<" ", "a">>, <<"a", " ">>, <<" ">>, <<"a", " ", "\t", " ", "b">>}

RunStyles ==
    {[bold |-> FALSE, italic |-> FALSE], [bold |-> TRUE, italic |-> FALSE],
     [bold |-> FALSE, italic |-> TRUE]}

WrapRuns == {[text |-> t, bold |-> y.bold, italic |-> y.italic] : t \in RunTexts, y \in RunStyles}

WrapWidths == {1, 2, 3, 5}

WrapInit ==
    /\ now = Now0 /\ output = None /\ FlowIdle
    /\ \E n \in 0..MaxRuns : \E runs \in [1..n -> WrapRuns] : \E maxWidth \in WrapWidths :
          input = [fn |-> "wrapStyledRuns", runs |-> runs, maxWidth |-> maxWidth]

CallWrapStyledRuns ==
    /\ input.fn = "wrapStyledRuns" /\ output = None
    /\ output' = [lines |-> wrapStyledRuns(input.runs, input.maxWidth)]
    /\ UNCHANGED <<now, input>> /\ UNCHANGED flowVars

WrapNext == CallWrapStyledRuns

SpecWrap == WrapInit /\ [][WrapNext]_vars

(***************************************************************************)
(* The document of a ticket.  generateTicketPdf is applied to a ticket     *)
(* whose comments are public or internal in every arrangement, under a     *)
(* tenant that includes internal notes and under one that does not.        *)
(***************************************************************************)
MaxComments == 4

PdfInit ==
    /\ now = Now0 /\ output = None /\ FlowIdle
    /\ \E n \in 0..MaxComments :
          \E public \in [1..n -> BOOLEAN], includeInternalNotes \in BOOLEAN :
             input = [fn |-> "generateTicketPdf",
                      ticket |-> Ticket(123, Num(42), Undefined),
                      comments |-> [i \in 1..n |-> Comment(i, public[i], 7, Undefined)],
                      pdfConfig |-> [companyName |-> "Tenant A", locale |-> "is-IS",
                                     includeInternalNotes |-> includeInternalNotes]]

CallGenerateTicketPdf ==
    /\ input.fn = "generateTicketPdf" /\ output = None
    /\ output' = generateTicketPdf(input.ticket, input.comments, input.pdfConfig, <<>>)
    /\ UNCHANGED <<now, input>> /\ UNCHANGED flowVars

PdfNext == CallGenerateTicketPdf

SpecPdf == PdfInit /\ [][PdfNext]_vars


(***************************************************************************)
(* The archive clients' token.  One client, OneSystemsClient or            *)
(* GoProClient, is built and used for a few uploads while the clock moves  *)
(* on by a millisecond or by the token's lifetime.  The log keeps what the *)
(* client did: each call of uploadDocument, each Authenticate request with *)
(* the token the archive issued, each upload request with its bearer.      *)
(***************************************************************************)
DefaultTokenTtlMs == 25 * 60 * 1000
MaxUploads == 2

TOKEN_KEY == <<"t", "o", "k", "e", "n">>
ACCESS_TOKEN_KEY == <<"a", "c", "c", "e", "s", "s", "T", "o", "k", "e", "n">>

\* the token the archive issues at the k-th acquisition
IssuedToken(k) == <<"t", "o", "k", "-">> \o IntText(k)

\* what the archive answers an Authenticate request with: a refusal, or a body
\* carrying the token, or a body without one
AuthResponses(system, k) ==
    {[ok |-> FALSE, status |-> 401, issued |-> <<>>, text |-> <<>>]}
    \cup (IF system = "gopro"
          THEN {[ok |-> TRUE, issued |-> IssuedToken(k), text |-> Quote(IssuedToken(k))],
                [ok |-> TRUE, issued |-> IssuedToken(k), text |-> IssuedToken(k)],
                [ok |-> TRUE, issued |-> <<>>, text |-> <<"\"", "\"">>]}
          ELSE {[ok |-> TRUE, issued |-> IssuedToken(k),
                 text |-> JsonStringify(Obj(<<[key |-> TOKEN_KEY, value |-> Str(IssuedToken(k))]>>))],
                [ok |-> TRUE, issued |-> IssuedToken(k),
                 text |-> JsonStringify(Obj(<<[key |-> ACCESS_TOKEN_KEY,
                                               value |-> Str(IssuedToken(k))]>>))],
                [ok |-> TRUE, issued |-> IssuedToken(k), text |-> IssuedToken(k)],
                [ok |-> TRUE, issued |-> <<>>, text |-> <<"{", "}">>]})

\* gopro.ts: token.replace(/^"|"$/g, '')
StripQuotes(text) ==
    LET head == IF Len(text) > 0 /\ text[1] = "\"" THEN Tail(text) ELSE text
    IN  IF Len(head) > 0 /\ head[Len(head)] = "\"" THEN SubSeq(head, 1, Len(head) - 1) ELSE head

\* the token in the parsed body: the string itself, or .token || .accessToken
TokenOf(data) ==
    IF data.t = "str" THEN data
    ELSE IF ~Falsy(Get(data, TOKEN_KEY)) THEN Get(data, TOKEN_KEY)
    ELSE Get(data, ACCESS_TOKEN_KEY)

\* onesystems.ts: the body parsed as JSON when it is JSON, the text otherwise
OneSystemsToken(text) ==
    CHOOSE token \in {TokenOf(IF parsed.ok THEN parsed.value ELSE Str(text)) :
                         parsed \in {JsonParse(text)}} : TRUE

\* authenticate(): the client after the archive's answer, or the error thrown
authenticate(client, at, resp) ==
    IF ~resp.ok THEN Thrown([code |-> "auth_failed", system |-> client.system, status |-> resp.status])
    ELSE Returned([client EXCEPT
                      !.token = IF client.system = "gopro" THEN Str(StripQuotes(resp.text))
                                ELSE OneSystemsToken(resp.text),
                      !.tokenExpiry = Num(at + client.tokenTtlMs)])

\* (mutant) a held token is never renewed
needsAuthentication_NoExpiry(client, at) == Falsy(client.token)

\* ensureAuthenticated(): !this.token || Date.now() > this.tokenExpiry
needsAuthentication(client, at) ==
    \/ Falsy(client.token)
    \/ at > (IF client.tokenExpiry = Null THEN 0 ELSE client.tokenExpiry.v)

\* `Bearer ${this.token}`
Bearer(token) == <<"B", "e", "a", "r", "e", "r", " ">> \o ToStringJs(token)

TokenInit ==
    /\ now = Now0 /\ FlowIdle
    /\ \E system \in {"onesystems", "gopro"} :
          /\ input = [fn |-> "docClient", system |-> system]
          /\ output = [system |-> system, token |-> Null, tokenExpiry |-> Null,
                       tokenTtlMs |-> DefaultTokenTtlMs, ticks |-> 0, uploads |-> 0,
                       acquired |-> 0, log |-> <<>>, results |-> <<>>]

\* time passes: a millisecond, or a token's lifetime
TokenClockTick ==
    /\ input.fn = "docClient" /\ output.ticks < MaxTicks
    /\ \E d \in {1, DefaultTokenTtlMs} : now' = now + d
    /\ output' = [output EXCEPT !.ticks = @ + 1]
    /\ UNCHANGED input /\ UNCHANGED flowVars

\* (mutant) the files after a refused one are uploaded all the same
UploadRequests_AllFiles(client, files, failAt, how, at) ==
    [i \in 1..files |->
        [e |-> "upload", at |-> at, call |-> client.uploads, file |-> i,
         bearer |-> Bearer(client.token), ok |-> i # failAt,
         outcome |-> IF i # failAt THEN "succeeded" ELSE how]]

\* the upload requests of one call, file 1 the PDF and the attachments after
\* it in their order, for GoPro each in a request of its own; failAt is the
\* request the archive refuses, or 0, and how it does: with a status that is
\* not OK, or with succeeded = false
UploadRequests(client, files, failAt, how, at) ==
    [i \in 1..(IF failAt = 0 THEN files ELSE failAt) |->
        [e |-> "upload", at |-> at, call |-> client.uploads, file |-> i,
         bearer |-> Bearer(client.token), ok |-> i # failAt,
         outcome |-> IF i # failAt THEN "succeeded" ELSE how]]

\* how the archive refuses an upload
Refusals(system) == IF system = "gopro" THEN {"status", "rejected"} ELSE {"status"}

\* uploadDocument: ensureAuthenticated, then the upload; results keeps how
\* each call ended
uploadDocument ==
    /\ input.fn = "docClient" /\ output.uploads < MaxUploads
    /\ \E files \in (IF output.system = "gopro" THEN {1, 3} ELSE {1}) :
       \E failAt \in 0..files, how \in Refusals(output.system) :
          LET called == [output EXCEPT !.uploads = @ + 1,
                                       !.log = Append(@, [e |-> "call", at |-> now,
                                                          files |-> files])]
              ended == IF failAt = 0 THEN "returned" ELSE "threw"
          IN  /\ failAt = 0 => how = "status"
              /\ IF needsAuthentication(output, now)
                 THEN \E resp \in AuthResponses(output.system, output.acquired + 1) :
                      \E r \in {authenticate(called, now, resp)} :
                         LET asked == [e |-> "auth", at |-> now, ok |-> resp.ok,
                                       issued |-> resp.issued]
                         IN  IF r.threw
                             THEN output' = [called EXCEPT !.log = Append(@, asked),
                                                           !.results = Append(@, "threw")]
                             ELSE output' = [r.value EXCEPT
                                                !.acquired = @ + 1,
                                                !.results = Append(@, ended),
                                                !.log = Append(@, asked)
                                                        \o UploadRequests(r.value, files, failAt,
                                                                          how, now)]
                 ELSE output' = [called EXCEPT
                                    !.results = Append(@, ended),
                                    !.log = @ \o UploadRequests(called, files, failAt, how, now)]
    /\ UNCHANGED <<now, input>> /\ UNCHANGED flowVars

TokenNext ==
    \/ TokenClockTick
    \/ uploadDocument

SpecToken == TokenInit /\ [][TokenNext]_vars

(***************************************************************************)
(* The audit log under two webhook requests served at once.  Each has      *)
(* uploaded its document and goes on to build its audit entry and to put   *)
(* it under the two keys, while the other does the same and the clock      *)
(* moves on.  The store keeps one value per key, as Workers KV and         *)
(* FileAuditStore do.                                                      *)
(***************************************************************************)
AuditTickets == {123, 456}

\* the starts of the two requests, before Now0
RequestStart(r) == Now0 - 2 * r

\* the locals of a webhook request for the ticket of tenant A, its document
\* uploaded
UploadedLocals(ticket, startTime) ==
    [NoLocals EXCEPT !.tenantConfig = TenantA, !.startTime = startTime,
                     !.ticket_id = Num(ticket), !.docEndpoint = OneSystemsName,
                     !.ep = Get(TenantA.endpoints, OneSystemsName),
                     !.ticket = Ticket(ticket, Num(42), Undefined),
                     !.comments = <<>>, !.attachments = <<>>,
                     !.caseNumber = <<"Z", "D", "-">> \o IntText(ticket),
                     !.pdfBuffer = [comments |-> <<>>]]

\* (mutant) a put removes what the store held
kvPut_Truncating(entries, key, value) == <<[key |-> key, value |-> value]>>

\* auditStore.put(key, value): the value under the key is replaced, or the
\* key is added
kvPut(entries, key, value) ==
    IF \E i \in 1..Len(entries) : entries[i].key = key
    THEN [i \in 1..Len(entries) |-> IF entries[i].key = key
                                    THEN [key |-> key, value |-> value] ELSE entries[i]]
    ELSE Append(entries, [key |-> key, value |-> value])

AuditLogInit ==
    /\ now = Now0
    /\ \E t1 \in AuditTickets, t2 \in AuditTickets :
          input = [fn |-> "auditLog", tickets |-> <<t1, t2>>]
    /\ output = [r \in 1..2 |-> [pc |-> "uploaded", entry |-> None]]
    /\ deployment = None /\ store = None /\ req = None /\ pc = "idle" /\ local = None
    /\ response = None
    /\ calls = <<>> /\ audit = <<>>

AuditClockTick ==
    /\ input.fn = "auditLog" /\ now < Now0 + MaxTicks
    /\ now' = now + 1
    /\ UNCHANGED <<input, output>> /\ UNCHANGED flowVars

\* handleWebhook after the upload: the audit entry, stamped with the time
RequestRecorded(r) ==
    /\ input.fn = "auditLog" /\ output[r].pc = "uploaded"
    /\ output' = [output EXCEPT ![r] = [pc |-> "auditPut",
                                        entry |-> AuditEntry(UploadedLocals(input.tickets[r],
                                                                            RequestStart(r)),
                                                             OneSystemsName, now)]]
    /\ UNCHANGED <<now, input>> /\ UNCHANGED flowVars

\* the first put; a failure is caught and the second put is skipped
RequestEntryPut(r) ==
    /\ input.fn = "auditLog" /\ output[r].pc = "auditPut"
    /\ \E ok \in BOOLEAN :
          IF ok
          THEN /\ audit' = kvPut(audit, AuditKey(output[r].entry), output[r].entry)
               /\ calls' = Append(calls, [by |-> r, key |-> AuditKey(output[r].entry),
                                          value |-> output[r].entry])
               /\ output' = [output EXCEPT ![r].pc = "auditIndexPut"]
          ELSE /\ output' = [output EXCEPT ![r].pc = "done"]
               /\ UNCHANGED <<audit, calls>>
    /\ UNCHANGED <<now, input, deployment, store, req, pc, local, response>>

RequestIndexPut(r) ==
    /\ input.fn = "auditLog" /\ output[r].pc = "auditIndexPut"
    /\ \E ok \in BOOLEAN :
          /\ IF ok
             THEN /\ audit' = kvPut(audit, TicketKey(output[r].entry), output[r].entry)
                  /\ calls' = Append(calls, [by |-> r, key |-> TicketKey(output[r].entry),
                                             value |-> output[r].entry])
             ELSE UNCHANGED <<audit, calls>>
          /\ output' = [output EXCEPT ![r].pc = "done"]
    /\ UNCHANGED <<now, input, deployment, store, req, pc, local, response>>

AuditLogNext ==
    \/ AuditClockTick
    \/ \E r \in 1..2 : RequestRecorded(r)
    \/ \E r \in 1..2 : RequestEntryPut(r)
    \/ \E r \in 1..2 : RequestIndexPut(r)

SpecAuditLog == AuditLogInit /\ [][AuditLogNext]_vars

(***************************************************************************)
(* Properties                                                              *)
(***************************************************************************)

\* ---- the request as it was made, for the statements about the flow ----

\* the tenant the request names
Claimed == req.sent.body.brand.brand
\* a request in service, naming a stored tenant
Serving(route) == req # None /\ req.route = route /\ Claimed \in DOMAIN store
\* the webhook was signed over timestamp and body with the named tenant's
\* secret, and it was stamped within five minutes of now
WebhookAuthentic ==
    /\ req.sent.signedWith = store[Claimed].zendesk.webhookSecret.v
    /\ req.sent.stamped
    /\ Abs(now - req.sent.at) <= 5 * MsPerMinute
\* the request carries the named tenant's API key
ApiKeyCorrect == req.sent.apiKey = store[Claimed].malaskra.apiKey.v
\* the names of a tenant's endpoints
EndpointNames(tenant) ==
    {tenant.endpoints.entries[i].key : i \in 1..Len(tenant.endpoints.entries)}
\* the client was built from one of the tenant's own endpoints
BuiltFrom(client, tenant) ==
    \E i \in 1..Len(tenant.endpoints.entries) :
        LET e == tenant.endpoints.entries[i].value
        IN  /\ client.baseUrl = e.baseUrl
            /\ client.type = e.type.v
            /\ IF client.type = "gopro"
               THEN client.username = e.username /\ client.password = e.password
               ELSE client.appKey = e.appKey
CallsOf(svc) == {i \in 1..Len(calls) : calls[i].svc = svc}

\* C1: while a webhook is served, a helpdesk call, an upload or an audit put
\* happens only if the signature was made with the tenant's secret over
\* timestamp and body and the timestamp is at most five minutes from now; a
\* webhook that reaches the handler and fails either is answered 401.
C1_NoWorkBeforeAuthentication ==
    Serving("webhook") =>
        /\ (calls # <<>> \/ audit # <<>>) => WebhookAuthentic
        /\ (pc = "done" /\ local.tenantConfig # None /\ ~WebhookAuthentic)
              => response.status = 401

\* a webhook rightly signed but stamped too long ago is answered 401, nothing called
C1_Witness ==
    /\ Serving("webhook") /\ pc = "done" /\ local.tenantConfig # None
    /\ req.sent.signedWith = store[Claimed].zendesk.webhookSecret.v
    /\ req.sent.stamped /\ Abs(now - req.sent.at) > 5 * MsPerMinute
    /\ response.status = 401 /\ calls = <<>> /\ audit = <<>>

\* C2: when the ticket fetched for a webhook has no brand_id, a null one, or
\* one whose text differs from the tenant's brand, the answer is 403 and the
\* ticket fetch stays the only call: no comments, download, upload or audit put.
C2_WebhookBrandCrossCheck ==
    (Serving("webhook") /\ local.ticket # None
        /\ (\/ local.ticket.brand_id \in {Undefined, Null}
            \/ ToStringJs(local.ticket.brand_id) # Claimed))
    => /\ pc = "done" /\ response.status = 403
       /\ Len(calls) = 1 /\ calls[1].op = "getTicket" /\ audit = <<>>

\* a webhook whose ticket carries no brand_id was answered 403
C2_Witness ==
    /\ Serving("webhook") /\ local.ticket # None /\ local.ticket.brand_id = Undefined
    /\ pc = "done" /\ response.status = 403 /\ Len(calls) = 1

\* C3: when the ticket fetched for an attachments request has no brand_id, the
\* answer is 403 and nothing is fetched or forwarded, as for a mismatch.
C3_AttachmentsAbsentBrandRejected ==
    (Serving("attachments") /\ local.ticket # None
        /\ (\/ local.ticket.brand_id = Undefined
            \/ ToStringJs(local.ticket.brand_id) # Claimed))
    => /\ pc = "done" /\ response.status = 403
       /\ Len(calls) = 1 /\ calls[1].op = "getTicket"

\* C4: the handler runs with the stored config of the tenant the request
\* names; every helpdesk call carries that tenant's subdomain, email and token;
\* every upload goes through a client built from one of that tenant's own
\* endpoints; and a doc_endpoint found only in another tenant's map is never
\* uploaded to, the answer being 400 once the request is authentic and its
\* other inputs are well-formed.
C4_TenantIsolation ==
    (req # None /\ local.tenantConfig # None) =>
        LET A == store[Claimed]
            elsewhere == /\ req.sent.body.doc.t = "str"
                         /\ req.sent.body.doc.v \notin EndpointNames(A)
                         /\ \E b \in DOMAIN store : req.sent.body.doc.v \in EndpointNames(store[b])
        IN  /\ Claimed \in DOMAIN store /\ local.tenantConfig = A
            /\ \A i \in CallsOf("zendesk") :
                  /\ calls[i].auth = [email |-> A.zendesk.email, apiToken |-> A.zendesk.apiToken]
                  /\ calls[i].baseUrl = HTTPS_PREFIX \o A.zendesk.subdomain.v \o ZENDESK_API_SUFFIX
            /\ \A i \in CallsOf("doc") : BuiltFrom(calls[i].client, A)
            /\ elsewhere =>
                  /\ calls = <<>> /\ audit = <<>>
                  /\ pc = "done" => response.status \in {400, 401}
                  /\ (pc = "done" /\ req.sent.body.ticket.positive
                        /\ (IF req.route = "webhook" THEN WebhookAuthentic
                            ELSE ApiKeyCorrect /\ req.sent.body.case.text))
                     => /\ response.status = 400
                        /\ response.body.error.code = "unknown_doc_endpoint"
                        /\ response.body.error.docEndpoint = req.sent.body.doc.v

\* an authentic request for tenant A naming tenant B's archive was answered 400
C4_Witness ==
    /\ Serving("webhook") /\ pc = "done" /\ local.tenantConfig # None
    /\ Claimed = BrandA /\ req.sent.body.doc = Str(ArchiveBName)
    /\ WebhookAuthentic /\ req.sent.body.ticket.positive
    /\ response.status = 400 /\ calls = <<>>

\* a request for tenant A was served to the upload, through A's own endpoint
C4_WitnessUpload ==
    /\ req # None /\ local.tenantConfig # None /\ Claimed = BrandA
    /\ CallsOf("doc") # {} /\ CallsOf("zendesk") # {}

\* C5: every secret comparison (webhook signature, API key, audit bearer
\* token) is made on fixed-length digests of both inputs, and so never takes
\* the exception path whatever the length of the caller's value.
C5_ComparisonsOnDigests ==
    (output # None /\ input.fn \in {"verifyWebhookSignature", "verifyApiKey", "auditAuth"}) =>
        /\ output.path # "threw"
        /\ output.path = "compared" => output.compared = <<Sha256Bytes, Sha256Bytes>>

\* C6: verifyWebhookSignature is true for the signature the sender computed
\* over timestamp+body under the secret, false once one byte of the body, the
\* timestamp or the signature is replaced, and false by the immediate return
\* (nothing raised) when timestamp, signature or secret is empty or absent.
C6_SignatureRoundTrip ==
    (output # None /\ input.fn = "verifyWebhookSignature") =>
        /\ input.tamper = "none" => output.value
        /\ input.tamper \in {"body", "timestamp", "signature"} => ~output.value
        /\ input.tamper \in {"dropped_timestamp", "dropped_signature", "dropped_secret"} =>
              ~output.value /\ output.path = "missing"

C6_Witness ==
    /\ output # None /\ input.fn = "verifyWebhookSignature"
    /\ input.tamper = "timestamp" /\ ~output.value /\ output.path = "compared"

\* C7: isTimestampFresh is true exactly when the timestamp parses as an
\* instant t with |now - t| <= 5 minutes: past and future alike, the boundary
\* included, unparseable, empty and absent timestamps rejected.
C7_FreshnessWindow ==
    (output # None /\ input.fn = "isTimestampFresh") =>
        output.value = (input.kind = "iso"
                        /\ Abs(output.at - input.instant) <= 5 * MsPerMinute)

C7_Witness ==
    /\ output # None /\ input.fn = "isTimestampFresh"
    /\ input.kind = "iso" /\ input.instant - output.at = 5 * MsPerMinute /\ output.value

\* C8: an attachments request without the tenant's API key is answered 401
\* whatever else is wrong with it, and nothing is called; with the key it is
\* never answered 401, though it carries no signature and no timestamp.
C8_ApiKeyBeforeEverything ==
    (Serving("attachments") /\ local.tenantConfig # None) =>
        /\ ~ApiKeyCorrect => /\ calls = <<>> /\ audit = <<>>
                             /\ pc = "done" => response.status = 401
        /\ (ApiKeyCorrect /\ pc = "done") => response.status # 401

\* another tenant's key and a ticket_id that is no positive integer: 401, not 400
C8_Witness ==
    /\ Serving("attachments") /\ local.tenantConfig # None /\ pc = "done"
    /\ Claimed = BrandA /\ req.sent.apiKey = "key-B" /\ ~req.sent.body.ticket.positive
    /\ response.status = 401 /\ calls = <<>>

\* C9: a handler never runs with a config that validateTenantConfig rejects:
\* resolveTenantConfig returned null for it and the entry point answered 404.
C9_HandlersGetValidConfig ==
    local.tenantConfig # None =>
        /\ ~validateTenantConfig(local.tenantConfig).threw
        /\ ~validateTenantConfig_src(local.tenantConfig).threw

\* C10: validateTenantConfig accepts a config only if every endpoint's baseUrl
\* is https with a host that is none of loopback 127/8, 10/8, 172.16/12,
\* 192.168/16, link-local 169.254/16, localhost or an IPv6 literal; http URLs
\* are rejected with the HTTPS error and such hosts with the private-address
\* error; a well-formed public https URL is accepted.
C10_BaseUrlValidation ==
    (output # None /\ input.fn = "validateTenantConfig" /\ input.url # None
        /\ output.impl = "tenant.ts") =>
        LET https == ToLower(input.url.scheme) = <<"h", "t", "t", "p", "s">>
            accepted == ~output.result.threw
        IN  /\ accepted => https /\ ~HostIsPrivate(input.url.host)
            /\ ~https => output.result.threw /\ output.result.error.code = "endpoint_https"
            /\ (https /\ HostIsPrivate(input.url.host)) =>
                  output.result.threw /\ output.result.error.code = "endpoint_private"
            /\ (https /\ HostIsPublic(input.url.host)) => accepted


\* the error names the field: it lists it among the missing ones, for the
\* endpoint it was taken from
NamesRemoved(result, r) ==
    /\ result.threw
    /\ IF r.scope = "endpoint"
       THEN /\ result.error.code = "endpoint_missing" /\ result.error.endpoint = r.endpoint
            /\ \E i \in DOMAIN result.error.fields : result.error.fields[i] = r.field
       ELSE /\ result.error.code = "missing"
            /\ \E i \in DOMAIN result.error.fields :
                  result.error.fields[i] = IF r.scope = "endpoints"
                                           THEN "endpoints (at least one required)"
                                           ELSE r.field

\* C11: validateTenantConfig returns without error for every valid config, and
\* with one required field removed (deleted or left empty) it throws an error
\* naming that field.
C11_RequiredFields ==
    (output # None /\ input.fn = "validateTenantConfig" /\ input.url = None) =>
        IF input.removed = NoRemoval THEN ~output.result.threw
        ELSE NamesRemoved(output.result, input.removed)

\* the same for the validateTenantConfig of tenant.ts alone
C11_RequiredFieldsCurrent ==
    (output # None /\ output.impl = "tenant.ts") => C11_RequiredFields

\* tenant.ts rejected a config for its missing pdf.companyName
C11_ReachedCompanyName ==
    /\ output # None /\ input.fn = "validateTenantConfig" /\ input.url = None
    /\ output.impl = "tenant.ts" /\ input.removed.field = "pdf.companyName"
    /\ output.result.threw


\* the text holds the part
Contains(text, part) ==
    \E i \in 1..(Len(text) - Len(part) + 1) : SubSeq(text, i, i + Len(part) - 1) = part

\* the request named a doc_endpoint its tenant does not have, and was answered
\* with the error of resolveEndpoint
UnknownEndpointAnswered ==
    /\ req # None /\ local.tenantConfig # None /\ response # None /\ response.status = 400
    /\ req.sent.body.doc.t = "str"
    /\ req.sent.body.doc.v \notin EndpointNames(local.tenantConfig)
    /\ req.sent.body.doc.v # CONSTRUCTOR_KEY
    /\ req.sent.body.ticket.positive
    /\ req.route = "attachments" => req.sent.body.case.text

\* C12: the 400 answer to a doc_endpoint the tenant does not have carries the
\* unknown-endpoint message, and the message holds the name of none of the
\* endpoints the tenant has configured.
C12_NoEndpointNamesInError ==
    UnknownEndpointAnswered =>
        /\ response.body.error.code = "unknown_doc_endpoint"
        /\ \A n \in EndpointNames(local.tenantConfig) :
              ~Contains(UnknownEndpointMessage(response.body.error), n)


\* the characters of /^[a-zA-Z0-9_-]+$/
AuditParamChars ==
    {LowerLetters[i] : i \in DOMAIN LowerLetters} \cup {UpperLetters[i] : i \in DOMAIN UpperLetters}
    \cup {Digits[i] : i \in DOMAIN Digits} \cup {"_", "-"}
\* the parameter is usable: a non-empty text over those characters
AuditParamUsable(v) ==
    v.t = "str" /\ Len(v.v) > 0 /\ \A i \in 1..Len(v.v) : v.v[i] \in AuditParamChars

\* C13: sanitizeAuditParam returns a value matching ^[A-Za-z0-9_-]+$ unchanged
\* and null for anything else; in both entry points the prefix a served audit
\* query passes to the store is 'audit:', 'audit:<brand>:' or
\* 'ticket:<brand>:<ticket>:' with only usable parameters in it.
C13_AuditPrefixSanitized ==
    /\ (output # None /\ input.fn = "sanitizeAuditParam")
          => output = IF AuditParamUsable(input.value) THEN input.value ELSE Null
    /\ (output # None /\ input.fn = "audit" /\ output.status = 200)
          => output.prefix =
                IF AuditParamUsable(input.brand_id) /\ AuditParamUsable(input.ticket_id)
                THEN TICKET_PREFIX \o input.brand_id.v \o <<":">> \o input.ticket_id.v \o <<":">>
                ELSE IF AuditParamUsable(input.brand_id)
                THEN AUDIT_PREFIX \o input.brand_id.v \o <<":">>
                ELSE AUDIT_PREFIX

\* the same for the Worker and sanitizeAuditParam alone
C13_AuditPrefixSanitizedWorker ==
    (input.fn = "audit" => input.entry = "worker") => C13_AuditPrefixSanitized


\* the gate an outbound call belongs to, in the order of the gates: fetch
\* ticket, fetch comments, fetch attachments, resolve author names, upload,
\* record audit
GateOf(op) ==
    IF op = "getTicket" THEN 1 ELSE IF op = "getTicketComments" THEN 2
    ELSE IF op = "download" THEN 3 ELSE IF op = "getUsersMany" THEN 4
    ELSE IF op = "createDocClient" THEN 5 ELSE IF op = "uploadDocument" THEN 5 ELSE 6
CallsOp(op) == {i \in 1..Len(calls) : calls[i].op = op}

\* the webhook's calls follow the gate order and none is made twice; a failed
\* call outside the tolerated ones ends the request at once with a failure
\* answer, with no call of a later gate and no audit entry; the answers given
\* before the first call leave nothing called
GatesInOrder(tolerated) ==
    (Serving("webhook") /\ local.tenantConfig # None) =>
        /\ \A i, j \in 1..Len(calls) :
              i < j => GateOf(calls[i].op) <= GateOf(calls[j].op) /\ calls[i] # calls[j]
        /\ \A op \in {"getTicket", "getTicketComments", "getUsersMany", "uploadDocument"} :
              Cardinality(CallsOp(op)) <= 1
        /\ Cardinality(CallsOp("put")) <= 2 /\ Len(audit) <= Cardinality(CallsOp("put"))
        /\ \A k \in 1..Len(local.failed) :
              local.failed[k] \notin tolerated =>
                 /\ k = Len(local.failed) /\ pc = "done" /\ response.status = 500
                 /\ \A i \in 1..Len(calls) : GateOf(calls[i].op) <= GateOf(local.failed[k])
                 /\ local.failed[k] # "createDocClient" => calls[Len(calls)].op = local.failed[k]
                 /\ local.failed[k] # "put" => audit = <<>>
        /\ (pc = "done" /\ response.status \in {400, 401}) => calls = <<>> /\ audit = <<>>
        /\ (pc = "done" /\ response.status = 403) =>
              Len(calls) = 1 /\ calls[1].op = "getTicket" /\ audit = <<>>
        /\ (pc = "done" /\ response.status = 200) =>
              /\ \A k \in 1..Len(local.failed) : local.failed[k] \in tolerated
              /\ CallsOp("uploadDocument") # {}
        /\ (CallsOp("put") # {} \/ audit # <<>>) =>
              CallsOp("uploadDocument") # {}
              /\ \A k \in 1..Len(local.failed) : local.failed[k] # "uploadDocument"

\* C14: the webhook's gates run in the fixed order; when a gate other than the
\* author-name resolution fails, the request ends with that gate's failure
\* answer, nothing of a later gate is done (no upload, no audit write), and
\* nothing is retried.
C14_GatesShortCircuit == GatesInOrder({"getUsersMany"})

\* C14 (amended): as C14, with a failed audit write tolerated like a failed
\* author lookup: it does not change the answer, which stays the 200 of a
\* successful upload.
C14_GatesShortCircuitButAudit == GatesInOrder({"getUsersMany", "put"})


\* the upload failed after the author lookup had failed too: 500, and no audit
\* entry though a store is bound
C14_Witness ==
    /\ Serving("webhook") /\ pc = "done" /\ deployment.auditStore
    /\ local.failed = <<"getUsersMany", "uploadDocument">>
    /\ response.status = 500 /\ audit = <<>> /\ CallsOp("put") = {}


\* the failed calls other than the author lookup
OtherFailures == SelectSeq(local.failed, LAMBDA op : op # "getUsersMany")

\* C15: when the batch author lookup fails the webhook goes on: the document
\* is rendered with no resolved author (every comment under 'User {id}'), the
\* upload is made in the name of 'Zendesk', the audit entries are written, and
\* the answer is the one the later gates alone decide: 200 unless the archive
\* client or the upload fails.
C15_AuthorLookupBestEffort ==
    (Serving("webhook") /\ Len(local.failed) > 0 /\ local.failed[1] = "getUsersMany") =>
        /\ CallsOp("getUsersMany") # {}
        /\ (\A k \in 1..Len(local.failed) : local.failed[k] # "createDocClient") =>
              /\ CallsOp("uploadDocument") # {}
              /\ local.authors = <<>>
              /\ \A i \in 1..Len(local.pdfBuffer.comments) :
                    \E c \in {local.comments[j] : j \in 1..Len(local.comments)} :
                       /\ c.id = local.pdfBuffer.comments[i].id
                       /\ local.pdfBuffer.comments[i].authorName =
                             Str(<<"U", "s", "e", "r", " ">> \o IntText(c.author_id.v))
              /\ local.docClient.type = "onesystems" => local.docClient.user = Str("Zendesk")
        /\ pc = "done" =>
              /\ response.status = IF \E k \in 1..Len(OtherFailures) : OtherFailures[k] # "put"
                                   THEN 500 ELSE 200
              /\ (response.status = 200 /\ deployment.auditStore /\ OtherFailures = <<>>)
                    => Len(audit) = 2

\* the lookup failed, and the ticket was archived and audited all the same,
\* the comments under the fallback label
C15_Witness ==
    /\ Serving("webhook") /\ pc = "done" /\ local.failed = <<"getUsersMany">>
    /\ response.status = 200 /\ Len(audit) = 2
    /\ Len(local.pdfBuffer.comments) > 0
    /\ local.pdfBuffer.comments[1].authorName = Str(<<"U", "s", "e", "r", " ", "7">>)


\* the non-empty values of the ticket's custom field of the id the endpoint
\* declares
DeclaredFieldValues ==
    IF local.ep.caseNumberFieldId.t = "num" /\ local.ticket.custom_fields.t = "arr"
    THEN {f.value : f \in {g \in {local.ticket.custom_fields.v[i] :
                                     i \in 1..Len(local.ticket.custom_fields.v)} :
                              /\ g.id = local.ep.caseNumberFieldId
                              /\ g.value \notin {Null, Undefined, Str(<<>>), Num(0)}}}
    ELSE {}

\* the text of a field value or a ticket id
ValueText(v) == IF v.t = "num" THEN IntText(v.v) ELSE v.v

C16_WitnessFallback ==
    /\ Serving("webhook") /\ pc = "done" /\ response.status = 200
    /\ local.ep.caseNumberFieldId = CaseNumberField
    /\ local.ticket.custom_fields = Arr(<<[id |-> CaseNumberField, value |-> Str(<<>>)]>>)
    /\ response.body.case_number = <<"Z", "D", "-", "1", "2", "3">>


\* C17: an answer never carries a backend's words: a failed helpdesk or
\* archive call is answered with 'Internal server error' alone, and no error
\* entry of a partial failure holds what the archive answered the upload with.
C17_NoBackendTextInBody ==
    (req # None /\ pc = "done") =>
        /\ response.status = 500 => response.body = [error |-> "Internal server error"]
        /\ "errors" \in DOMAIN response.body =>
              \A i \in 1..Len(response.body.errors) :
                 ~Contains(response.body.errors[i].error, BackendBody)

\* C17 (the failures that end the request): a failed helpdesk call, a failed
\* archive client and a failed webhook upload are answered with 'Internal
\* server error' alone.
C17_FatalFailuresGeneric ==
    (req # None /\ pc = "done" /\ Len(local.failed) > 0
       /\ local.failed[Len(local.failed)] \in {"getTicket", "getTicketComments", "createDocClient"})
        => response = Reply(500, [error |-> "Internal server error"])


\* the on-demand flow has ended after its downloads, the archive client built
Forwarded ==
    /\ Serving("attachments") /\ pc = "done" /\ CallsOp("getTicketComments") # {}
    /\ \A k \in 1..Len(local.failed) :
          local.failed[k] \notin {"getTicketComments", "createDocClient"}

\* the file names of the uploads attempted, as they were started
UploadsStarted == [i \in 1..Cardinality(CallsOp("uploadDocument")) |->
                     calls[CHOOSE k \in CallsOp("uploadDocument") :
                              Cardinality({j \in CallsOp("uploadDocument") : j <= k}) = i].filename]

\* uploads, one per attachment and in the order of the downloads, and the
\* count and the error entries of the answer are theirs
ForwardingReport ==
    /\ UploadsStarted = [i \in 1..Len(local.attachments) |-> local.attachments[i].filename]
    /\ [i \in 1..Len(local.uploads) |-> local.uploads[i].filename] = UploadsStarted
    /\ response.status = 200
    /\ LET failures == SelectSeq(local.uploads, LAMBDA u : ~u.ok)
           errors == IF "errors" \in DOMAIN response.body THEN response.body.errors ELSE <<>>
       IN  /\ response.body.attachments_forwarded + Len(errors) = Len(local.attachments)
           /\ response.body.attachments_forwarded = Len(local.uploads) - Len(failures)
           /\ response.body.success = (errors = <<>>)
           /\ [i \in 1..Len(errors) |-> errors[i].filename]
                 = [i \in 1..Len(failures) |-> failures[i].filename]

Fetched == input.fn = "fetchAttachments" /\ output # None

\* the attachment's url is one of the helpdesk's: https, and the last two
\* labels of its host zendesk.com or zdassets.com
Genuine(url) ==
    /\ url.parses /\ url.https /\ Len(url.labels) >= 2
    /\ <<url.labels[Len(url.labels) - 1], url.labels[Len(url.labels)]>>
          \in {<<"zendesk", "com">>, <<"zdassets", "com">>}

\* the attachments in the order of the ticket: those with a genuine url, and
\* those of them whose download succeeds
GenuineOnes == {i \in 1..Len(input.urls) : Genuine(input.urls[i])}
Downloadable == {i \in GenuineOnes : input.fetched[i].ok}

\* the members of a set of numbers up to k, in ascending order
RECURSIVE Ascending(_, _)
Ascending(set, k) ==
    IF k = 0 THEN <<>>
    ELSE IF k \in set THEN Append(Ascending(set, k - 1), k) ELSE Ascending(set, k - 1)

RECURSIVE TotalBytes(_)
TotalBytes(attachments) ==
    IF Len(attachments) = 0 THEN 0 ELSE attachments[1].bytes + TotalBytes(Tail(attachments))

\* what was returned is the first attachments that download, and what was
\* requested the genuine urls up to attachment last
ReturnedUpTo(count, last) ==
    LET got == SubSeq(Ascending(Downloadable, Len(input.urls)), 1, count)
        asked == Ascending(GenuineOnes, last)
    IN  /\ output.attachments = [k \in 1..count |->
                                   [filename |-> <<"f">> \o IntText(got[k]),
                                    contentType |-> "application/pdf", size |-> 10,
                                    bytes |-> input.fetched[got[k]].bytes]]
        /\ output.requests = [k \in 1..Len(asked) |-> input.urls[asked[k]].text]

\* C19: fetchAttachments returns, and with no more than maxFiles attachments
\* and no more than maxTotalBytes of data; it returns the attachments that
\* download, in order, up to the first cap met, and requests nothing after
\* it: nothing after the attachment that filled maxFiles, nothing after the
\* download that would have taken the total over maxTotalBytes.
C19_AttachmentCaps ==
    Fetched =>
        LET all == Ascending(Downloadable, Len(input.urls))
            count == Len(output.attachments)
        IN  /\ count <= input.maxFiles
            /\ TotalBytes(output.attachments) <= input.maxTotalBytes
            /\ count <= Len(all)
            /\ IF count = input.maxFiles
               THEN ReturnedUpTo(count, all[count])
               ELSE IF count < Len(all)
               THEN /\ TotalBytes(output.attachments) + input.fetched[all[count + 1]].bytes
                          > input.maxTotalBytes
                    /\ ReturnedUpTo(count, all[count + 1])
               ELSE ReturnedUpTo(count, Len(input.urls))

\* the count cap met with a genuine attachment left
C19_Witness ==
    /\ Fetched /\ Len(output.attachments) = 2 /\ input.maxFiles = 2
    /\ Cardinality(Downloadable) = 3 /\ Len(output.requests) = 2

\* the byte cap met: the third download is made and dropped
C19_WitnessBytes ==
    /\ Fetched /\ Len(output.attachments) = 2 /\ input.maxTotalBytes = 25
    /\ TotalBytes(output.attachments) = 20
    /\ Cardinality(Downloadable) = 3 /\ Len(output.requests) = 3

\* C20: fetchAttachments requests an attachment only when its content_url is
\* https and the last two labels of its host are zendesk.com or zdassets.com;
\* for every other url no request is made.
C20_OnlyGenuineUrlsFetched ==
    Fetched =>
        \A i \in 1..Len(input.urls) :
           (\E k \in 1..Len(output.requests) : output.requests[k] = input.urls[i].text)
              => Genuine(input.urls[i])

\* the genuine url is requested, the one on evil-zendesk.com beside it is not
C20_Witness ==
    /\ Fetched /\ input.urls = <<EvilUrl, ZendeskUrl>>
    /\ output.requests = <<ZendeskUrl.text>>
    /\ Len(output.attachments) = 1


\* C21: an attachment whose url is not allowed, whose download is answered
\* with a non-OK status or whose fetch throws is passed over, and the ones
\* after it are still taken in order: with the caps out of reach, what
\* fetchAttachments returns is exactly the attachments that downloaded, in the
\* order of the ticket, and every genuine url has been requested.
C21_FailedDownloadsSkipped ==
    (Fetched /\ input.maxFiles = DefaultMaxFiles /\ input.maxTotalBytes = DefaultMaxTotalBytes) =>
        LET good == Ascending({i \in 1..Len(input.urls) :
                                 /\ Genuine(input.urls[i])
                                 /\ ~input.fetched[i].threw /\ input.fetched[i].ok},
                              Len(input.urls))
        IN  /\ [k \in 1..Len(output.attachments) |-> output.attachments[k].filename]
                  = [k \in 1..Len(good) |-> <<"f">> \o IntText(good[k])]
            /\ \A i \in GenuineOnes :
                  \E k \in 1..Len(output.requests) : output.requests[k] = input.urls[i].text

\* a rejected fetch, a blocked url and then a download that succeeds
C21_Witness ==
    /\ Fetched /\ Len(input.urls) = 3
    /\ input.urls[1] = ZendeskUrl /\ input.fetched[1].threw
    /\ input.urls[2] = EvilUrl
    /\ input.urls[3] = ZendeskUrl /\ input.fetched[3].ok
    /\ input.maxFiles = DefaultMaxFiles /\ input.maxTotalBytes = DefaultMaxTotalBytes
    /\ Len(output.attachments) = 1 /\ output.attachments[1].filename = <<"f", "3">>


\* ---- the archive clients' token ----

\* the successful acquisitions before event i of the log
Acquisitions(i) == {j \in 1..(i - 1) : output.log[j].e = "auth" /\ output.log[j].ok}
LastAcquisition(i) == CHOOSE j \in Acquisitions(i) : \A k \in Acquisitions(i) : k <= j

\* C22: uploadDocument asks the archive for a token exactly when the client
\* holds none or the clock is past the time the last one was acquired plus
\* tokenTtlMs, every upload request carries the token acquired last, and
\* tokenExpiry is the time of the last acquisition plus tokenTtlMs.
C22_TokenRefresh ==
    (input.fn = "docClient") =>
        /\ \A i \in 1..Len(output.log) :
              /\ output.log[i].e = "call" =>
                    LET held == /\ Acquisitions(i) # {}
                                /\ output.log[LastAcquisition(i)].issued # <<>>
                        past == /\ Acquisitions(i) # {}
                                /\ output.log[i].at
                                      > output.log[LastAcquisition(i)].at + DefaultTokenTtlMs
                    IN  (i < Len(output.log) /\ output.log[i + 1].e = "auth") <=> (~held \/ past)
              /\ output.log[i].e = "upload" =>
                    /\ Acquisitions(i) # {}
                    /\ output.log[LastAcquisition(i)].issued # <<>> =>
                          output.log[i].bearer
                             = <<"B", "e", "a", "r", "e", "r", " ">>
                                  \o output.log[LastAcquisition(i)].issued
        /\ LET n == Len(output.log) + 1
           IN  IF Acquisitions(n) = {} THEN output.tokenExpiry = Null /\ output.token = Null
               ELSE output.tokenExpiry
                       = Num(output.log[LastAcquisition(n)].at + DefaultTokenTtlMs)

\* a second upload at the very end of the token's life, made with the token
\* held
C22_Witness ==
    /\ input.fn = "docClient" /\ output.uploads = 2 /\ output.acquired = 1
    /\ now = Now0 + DefaultTokenTtlMs
    /\ output.log[Len(output.log)].e = "upload"
    /\ output.log[Len(output.log)].bearer = <<"B", "e", "a", "r", "e", "r", " ", "t", "o", "k", "-", "1">>

\* a second upload a millisecond later, made with a second token
C22_WitnessRenewed ==
    /\ input.fn = "docClient" /\ output.uploads = 2 /\ output.acquired = 2
    /\ now = Now0 + DefaultTokenTtlMs + 1
    /\ output.log[Len(output.log)].e = "upload"
    /\ output.log[Len(output.log)].bearer = <<"B", "e", "a", "r", "e", "r", " ", "t", "o", "k", "-", "2">>


\* ---- the audit log ----

\* the entry holds the fields of operational metadata and no other, each
\* with the operational fact it names
OperationalOnly(entry) ==
    /\ DOMAIN entry = {"event", "timestamp", "duration_ms", "brand_id", "source", "destination"}
    /\ DOMAIN entry.source = {"ticket_id", "ticket_status", "total_comments", "public_comments",
                              "internal_notes", "internal_notes_included", "total_attachments"}
    /\ DOMAIN entry.destination = {"doc_endpoint", "doc_system", "case_number",
                                   "case_number_source", "pdf_filename", "pdf_size_bytes"}
    /\ entry.event = "ticket_archived"
    /\ Len(entry.timestamp) = 24 /\ entry.duration_ms \in Nat
    /\ entry.brand_id = Str(Claimed)
    /\ entry.source.ticket_id.t = "num" /\ entry.source.ticket_id.v = 123
    /\ entry.source.ticket_status = "solved"
    /\ entry.source.total_comments = Len(local.comments)
    /\ entry.source.public_comments + entry.source.internal_notes = Len(local.comments)
    /\ entry.source.internal_notes_included \in BOOLEAN
    /\ entry.source.total_attachments \in 0..Len(AllAttachments(local.comments))
    /\ entry.destination.doc_endpoint = req.sent.body.doc.v
    /\ entry.destination.doc_system \in {Str("onesystems"), Str("gopro")}
    /\ entry.destination.case_number \in
          {<<"Z", "D", "-", "1", "2", "3">>, <<"C", "A", "S", "E", "-", "9">>, <<"7", "7">>,
           <<"Z", "D", "-", "2", "0", "2", "4">>}
    /\ entry.destination.case_number_source \in {"fallback", "custom_field"}
    /\ entry.destination.pdf_filename
          = <<"t", "i", "c", "k", "e", "t", "-", "1", "2", "3", ".", "p", "d", "f">>
    /\ entry.destination.pdf_size_bytes \in Nat

\* C23: an audit entry of the webhook flow holds operational metadata only:
\* the event, the timestamp, the duration, the brand, the ticket's id and
\* status, the counts of comments and attachments, the internal-notes flag,
\* the endpoint's name and type, the case number and its source, the PDF's
\* name and size; it has no other field, so no author, comment body, subject,
\* attachment name, credential or url.
C23_AuditEntryOperationalOnly ==
    Serving("webhook") =>
        /\ local.auditEntry # None => OperationalOnly(local.auditEntry)
        /\ \A i \in 1..Len(audit) : OperationalOnly(audit[i].value)

\* a ticket with named authors, a subject and a downloaded attachment,
\* archived and entered twice in the audit log
C23_Witness ==
    /\ Serving("webhook") /\ pc = "done" /\ Len(audit) = 2
    /\ Len(local.authors) > 0 /\ Len(local.attachments) = 1
    /\ local.ticket.subject = "Test"
    /\ audit[1].value.source.total_attachments = 1


\* what request r has put in the audit log
PutsOf(r) == {i \in 1..Len(calls) : calls[i].by = r}
Stored(key, value) == \E i \in 1..Len(audit) : audit[i].key = key /\ audit[i].value = value

\* C24: the audit log is append-only: what a request has put stays in the
\* log as it was put, whatever the other request puts, also when both are
\* for the same brand and ticket and stamp their entries in the same
\* millisecond.
C24_AuditAppendOnly ==
    (input.fn = "auditLog") =>
        \A i \in 1..Len(calls) : Stored(calls[i].key, calls[i].value)

\* C24 (the keys): no put removes a key from the log, and an entry is
\* replaced only by a put under its own key.
C24_AuditKeysKept ==
    (input.fn = "auditLog") =>
        \A i \in 1..Len(calls) :
           \/ Stored(calls[i].key, calls[i].value)
           \/ \E j \in (i + 1)..Len(calls) :
                 /\ calls[j].key = calls[i].key /\ calls[j].by # calls[i].by
                 /\ output[1].entry.timestamp = output[2].entry.timestamp
                 /\ input.tickets[1] = input.tickets[2]

\* both requests have put their entries, for different tickets in the same
\* millisecond, and the log holds the four of them
C24_ReachedBothKept ==
    /\ input.fn = "auditLog" /\ Len(calls) = 4 /\ Len(audit) = 4
    /\ input.tickets[1] # input.tickets[2]
    /\ output[1].entry.timestamp = output[2].entry.timestamp


\* ---- the body size limit ----

\* the request's body is over 1 MiB, and it was turned away at once: nothing
\* of it was read into the handler, and nothing was called
TurnedAway ==
    /\ pc \in {"entry", "done"}
    /\ local = NoLocals /\ calls = <<>> /\ audit = <<>>
    /\ pc = "done" => response \in {Reply(413, [error |-> "Request body too large"]),
                                    InternalServerError}

\* C25: in both entry points a request whose body is over 1 MiB is turned
\* away before the body is parsed: no tenant is looked up and no handler runs.
C25_OversizedBodyRejected ==
    (req # None /\ req.sent.bytes > MAX_BODY_SIZE) => TurnedAway

\* C25 (Node, and the Worker when the body is declared or is over 1 MiB in
\* UTF-16 code units as well): the request is turned away.
C25_OversizedBodyRejectedWhenCounted ==
    (/\ req # None /\ req.sent.bytes > MAX_BODY_SIZE
     /\ \/ deployment.entry = "node"
        \/ req.contentLength # Undefined
        \/ req.sent.chars > MAX_BODY_SIZE) => TurnedAway

\* the Worker has turned away a body it had to read to measure
C25_ReachedWorkerMeasured ==
    /\ req # None /\ deployment.entry = "worker" /\ req.contentLength = Undefined
    /\ req.sent.chars > MAX_BODY_SIZE /\ pc = "done" /\ response.status = 413

\* a body of exactly 1 MiB is served
C25_ReachedAtLimit ==
    /\ req # None /\ req.sent.bytes = MAX_BODY_SIZE /\ pc = "done" /\ response.status = 200


\* ---- unknown tenants ----

\* a request that names a tenant and an archive, is within the size limit, and
\* has reached its answer
Answered ==
    /\ req # None /\ pc = "done" /\ req.sent.bytes <= MAX_BODY_SIZE
    /\ req.sent.body.json /\ req.sent.body.brand.value # Undefined
    /\ req.sent.body.doc # Undefined

\* the caller has not shown the credentials of the tenant it names
Uncredentialed ==
    IF req.route = "webhook" THEN ~WebhookAuthentic ELSE ~ApiKeyCorrect

\* C26: a caller without valid credentials gets the same answer whether the
\* brand_id it names is configured or not: the generic 404 'Unknown tenant'
\* that a request naming an unknown tenant gets.
C26_TenantsIndistinguishable ==
    Answered =>
        IF Claimed \notin DOMAIN store
        THEN response = Reply(404, [error |-> "Unknown tenant"])
        ELSE Uncredentialed => response = Reply(404, [error |-> "Unknown tenant"])

\* C26 (unknown tenants): a request naming a tenant that is not configured is
\* answered 404 'Unknown tenant', whatever else it holds.
C26_UnknownTenantNotFound ==
    (Answered /\ Claimed \notin DOMAIN store)
        => response = Reply(404, [error |-> "Unknown tenant"])

\* an unknown tenant has been named and answered
C26_ReachedUnknownTenant ==
    Answered /\ Claimed \notin DOMAIN store /\ response.status = 404


\* ---- the comments of the document ----

\* the document has been generated
Rendered == input.fn = "generateTicketPdf" /\ output # None

\* the ids of the comments the document shows, in the document's order
ShownIds == [i \in 1..Len(output.comments) |-> output.comments[i].id]

\* the ids of the ticket's comments that are due in the document, in the
\* ticket's order
DueIds ==
    LET due == SelectSeq(input.comments,
                         LAMBDA c : input.pdfConfig.includeInternalNotes \/ c.public # FALSE)
    IN  [i \in 1..Len(due) |-> due[i].id]

\* C27: generateTicketPdf renders a comment exactly when includeInternalNotes
\* is true or the comment is not internal; with the flag false no internal
\* comment is rendered; the rendered comments keep their original order.
C27_CommentsRendered ==
    Rendered =>
        /\ ShownIds = DueIds
        /\ ~input.pdfConfig.includeInternalNotes
              => \A i \in 1..Len(output.comments) : ~output.comments[i].isInternal
        /\ \A i, j \in 1..Len(output.comments) :
              i < j => output.comments[i].id < output.comments[j].id

\* an internal comment between two public ones was left out
C27_Witness ==
    /\ Rendered /\ ~input.pdfConfig.includeInternalNotes
    /\ Len(input.comments) = 3 /\ input.comments[1].public
    /\ ~input.comments[2].public /\ input.comments[3].public
    /\ ShownIds = <<1, 3>>

\* an internal comment was rendered because the tenant includes internal notes
C27_WitnessIncluded ==
    /\ Rendered /\ input.pdfConfig.includeInternalNotes
    /\ \E i \in 1..Len(output.comments) : output.comments[i].isInternal


\* ---- the HTML parser ----

\* the markup has been parsed
Parsed(matter) == input.fn = "parseHtmlToBlocks" /\ input.matter = matter /\ output # None

\* the places of the markup that hold a text
TextPlaces == {i \in 1..Len(input.tokens) : input.tokens[i] \in {"text", "text&amp;"}}

\* the run shows the text of place i
Shows(run, i) == \E k \in 1..Len(run.text) : run.text[k] = Letters[i]

\* the lists open before place i: each <ul> or <ol> opens one, each </ul>
\* closes the innermost one, if any
RECURSIVE OpenLists(_)
OpenLists(i) ==
    IF i <= 1 THEN 0
    ELSE IF input.tokens[i - 1] \in {"<ul>", "<ol>"} THEN OpenLists(i - 1) + 1
    ELSE IF input.tokens[i - 1] = "</ul>" /\ OpenLists(i - 1) > 0 THEN OpenLists(i - 1) - 1
    ELSE OpenLists(i - 1)

\* the blockquotes open before place i
RECURSIVE OpenQuotes(_)
OpenQuotes(i) ==
    IF i <= 1 THEN 0
    ELSE IF input.tokens[i - 1] = "<blockquote>" THEN OpenQuotes(i - 1) + 1
    ELSE IF input.tokens[i - 1] = "</blockquote>" /\ OpenQuotes(i - 1) > 0
    THEN OpenQuotes(i - 1) - 1
    ELSE OpenQuotes(i - 1)

\* C28: the indent of every emitted block is 15 x the open lists + 20 x the
\* open blockquotes where the block was opened, for paragraphs, headings and
\* list items alike.  (No list or blockquote opens or closes inside a block,
\* so the count at any text of the block is the count at its opening.)
C28_BlockIndent ==
    Parsed("nesting") =>
        \A b \in 1..Len(output.blocks) : \A r \in 1..Len(output.blocks[b].runs) :
            \A i \in TextPlaces :
                Shows(output.blocks[b].runs[r], i)
                    => output.blocks[b].indent = 15 * OpenLists(i) + 20 * OpenQuotes(i)

\* C28 (paragraphs and headings): the indent is as stated for every block
\* that is not a list item, and a list item is indented 15 x the open lists.
C28_BlockIndentButItems ==
    Parsed("nesting") =>
        \A b \in 1..Len(output.blocks) : \A r \in 1..Len(output.blocks[b].runs) :
            \A i \in TextPlaces :
                Shows(output.blocks[b].runs[r], i)
                    => output.blocks[b].indent =
                          15 * OpenLists(i)
                          + (IF output.blocks[b].type = "list-item" THEN 0
                             ELSE 20 * OpenQuotes(i))

\* a heading inside a list inside a blockquote was emitted, indented 35
C28_ReachedNested ==
    /\ Parsed("nesting")
    /\ \E b \in 1..Len(output.blocks) :
          output.blocks[b].type = "heading" /\ output.blocks[b].indent = 35

\* what the text at place i lies in: "script", "style" or "none".  An element
\* opens at its open tag and closes at its own end tag, which may hold white
\* space after the name; tags inside it are its text.
RECURSIVE Element(_)
Element(i) ==
    IF i <= 1 THEN "none"
    ELSE LET before == Element(i - 1)
             tag == input.tokens[i - 1]
         IN  IF before = "none"
             THEN IF tag = "<script>" THEN "script"
                  ELSE IF tag = "<STYLE>" THEN "style" ELSE "none"
             ELSE IF before = "script" /\ tag \in {"</script>", "</script >"} THEN "none"
             ELSE IF before = "style" /\ tag = "</style>" THEN "none"
             ELSE before

\* C29: no text that lies inside a <script> or <style> element of the input
\* appears in any run of the output.
C29_NoScriptText ==
    Parsed("removal") =>
        \A i \in TextPlaces :
            Element(i) # "none"
                => \A b \in 1..Len(output.blocks) : \A r \in 1..Len(output.blocks[b].runs) :
                       ~Shows(output.blocks[b].runs[r], i)

\* the tags of the markup are these only
TagsAmong(kinds) ==
    \A i \in 1..Len(input.tokens) : input.tokens[i] \in kinds \cup {"text"}

\* C29 (closed elements): in markup of script elements with their plain end
\* tags, no text inside an element that is closed appears in the output.
C29_NoClosedScriptText ==
    (Parsed("removal") /\ TagsAmong({"<script>", "</script>", "<b>"})) =>
        \A i \in TextPlaces :
            (Element(i) # "none" /\ \E j \in (i + 1)..Len(input.tokens) :
                                       input.tokens[j] = "</script>")
                => \A b \in 1..Len(output.blocks) : \A r \in 1..Len(output.blocks[b].runs) :
                       ~Shows(output.blocks[b].runs[r], i)

\* a script element was removed from between two texts that were kept
C29_ReachedRemoved ==
    /\ Parsed("removal")
    /\ input.tokens = <<"text", "<script>", "text", "</script>">>
    /\ Len(output.blocks) = 1 /\ Len(output.blocks[1].runs) = 1

\* the text at place i lies between a heading's open tag and its close tag
RECURSIVE InHeading(_)
InHeading(i) ==
    IF i <= 1 THEN FALSE
    ELSE IF input.tokens[i - 1] = "<h1>" THEN TRUE
    ELSE IF input.tokens[i - 1] = "</h1>" THEN FALSE
    ELSE InHeading(i - 1)

\* C30: every run of text between a heading's open tag and its close tag is
\* bold and belongs to a block of type heading, and the bold forced by the
\* heading ends at the heading's close tag.
C30_HeadingRuns ==
    Parsed("heading") =>
        \A b \in 1..Len(output.blocks) : \A r \in 1..Len(output.blocks[b].runs) :
            \A i \in TextPlaces :
                Shows(output.blocks[b].runs[r], i) =>
                    /\ InHeading(i)
                          => output.blocks[b].runs[r].bold /\ output.blocks[b].type = "heading"
                    /\ (i > 1 /\ input.tokens[i - 1] = "</h1>")
                          => ~output.blocks[b].runs[r].bold

\* C30 (plain headings): the text that follows a heading's open tag at once
\* is bold and in a heading block, and the text that follows a heading's
\* close tag at once is not bold.
C30_PlainHeadingRuns ==
    Parsed("heading") =>
        \A b \in 1..Len(output.blocks) : \A r \in 1..Len(output.blocks[b].runs) :
            \A i \in TextPlaces :
                (Shows(output.blocks[b].runs[r], i) /\ i > 1) =>
                    /\ input.tokens[i - 1] = "<h1>"
                          => output.blocks[b].runs[r].bold /\ output.blocks[b].type = "heading"
                    /\ input.tokens[i - 1] = "</h1>" => ~output.blocks[b].runs[r].bold

\* a heading and the text after it were emitted
C30_ReachedHeading ==
    /\ Parsed("heading") /\ input.tokens = <<"<h1>", "text", "</h1>", "text&amp;">>
    /\ Len(output.blocks) = 2 /\ output.blocks[2].runs[1].text = <<"d", "&">>


\* ---- tables ----

\* the runs of the output, by block and place in the block
RunPlaces ==
    {<<b, r>> \in (1..Len(output.blocks)) \X (1..(MaxTokens + 2)) :
        r <= Len(output.blocks[b].runs)}

\* the runs of the output that hold just this text
RunsOf(text) == {p \in RunPlaces : output.blocks[p[1]].runs[p[2]].text = text}

\* the table cells closed in the markup
CellCloses == {i \in 1..Len(input.tokens) : input.tokens[i] \in {"</td>", "</th>"}}

\* the block of the output that shows the text of place i, or 0
BlockOf(i) ==
    LET at == {p \in RunPlaces : Shows(output.blocks[p[1]].runs[p[2]], i)}
    IN  IF at = {} THEN 0 ELSE (CHOOSE p \in at : TRUE)[1]

\* texts on the two sides of a closed table row are in different blocks
RowCloseEndsBlock ==
    \A i, j \in TextPlaces :
        (i < j /\ \E k \in (i + 1)..(j - 1) : input.tokens[k] = "</tr>")
            => BlockOf(i) # BlockOf(j)

\* C31: closing a table row ends the current block, and each closed table
\* cell appends a run of two spaces to the block, in the blocks returned.
C31_TableRowsAndCells ==
    Parsed("table") =>
        /\ RowCloseEndsBlock
        /\ Cardinality(RunsOf(<<" ", " ">>)) = Cardinality(CellCloses)

\* C31 (as returned): closing a table row ends the current block, and each
\* closed table cell leaves a run of one space in the blocks returned.
C31_TableRowsAndCollapsedCells ==
    Parsed("table") =>
        /\ RowCloseEndsBlock
        /\ Cardinality(RunsOf(<<" ">>)) = Cardinality(CellCloses)

\* two cells of one row and a text of the next row were parsed
C31_ReachedTwoRows ==
    /\ Parsed("table") /\ input.tokens = <<"text", "</td>", "</tr>", "text">>
    /\ Len(output.blocks) = 2


\* ---- the order of the checks of a tenant config ----

\* tenant.ts has validated a config that lacks a required scalar field and
\* whose subdomain violates the pattern
ValidatedCrafted ==
    /\ input.fn = "validateTenantConfig" /\ output # None /\ output.impl = "tenant.ts"
    /\ input.removed.scope = "config" /\ input.removed.field # "zendesk.subdomain"
    /\ input.config.zendesk.subdomain.v = CraftedSubdomain.v

\* C32: validateTenantConfig checks the presence of the required scalar
\* fields before the subdomain pattern: a config that lacks a required field
\* and has a subdomain violating the pattern is rejected with the
\* missing-field error naming that field.
C32_MissingFieldBeforeSubdomain ==
    ValidatedCrafted =>
        /\ output.result.threw /\ output.result.error.code = "missing"
        /\ \E i \in 1..Len(output.result.error.fields) :
              output.result.error.fields[i] = input.removed.field

\* C32 (as coded): such a config is rejected with the subdomain error.
C32_SubdomainBeforeMissingField ==
    ValidatedCrafted =>
        output.result.threw /\ output.result.error.code = "invalid_subdomain"

\* a config without its name and with a crafted subdomain was rejected
C32_ReachedCrafted ==
    ValidatedCrafted /\ input.removed.field = "name" /\ output.result.threw


\* ---- the uploads of one call ----

\* the upload requests of the c-th call of uploadDocument, as places of the log
UploadsOf(c) == {i \in 1..Len(output.log) : output.log[i].e = "upload" /\ output.log[i].call = c}

\* the files the c-th call was given: the PDF and the attachments
FilesOf(c) ==
    LET at == {i \in 1..Len(output.log) : output.log[i].e = "call"}
        nth == CHOOSE i \in at : Cardinality({j \in at : j <= i}) = c
    IN  output.log[nth].files

\* the c-th call got as far as uploading
Uploading(c) ==
    \E i \in 1..Len(output.log) : output.log[i].e = "upload" /\ output.log[i].call = c

\* C33: GoProClient.uploadDocument uploads one file per request, the PDF
\* first and the attachments after it in their order; at the first request
\* answered not OK or succeeded = false it throws and no later file is
\* uploaded; no file is uploaded twice; the other requests are not undone.
C33_GoProUploadsInOrder ==
    (input.fn = "docClient" /\ output.system = "gopro") =>
        \A c \in 1..output.uploads :
            LET ups == UploadsOf(c)
            IN  /\ \A i \in ups : output.log[i].file = Cardinality({j \in ups : j <= i})
                /\ \A i \in ups :
                      ~output.log[i].ok
                          => /\ output.results[c] = "threw"
                             /\ \A j \in ups : j <= i
                /\ (Uploading(c) /\ \A i \in ups : output.log[i].ok)
                      => output.results[c] = "returned" /\ Cardinality(ups) = FilesOf(c)
                /\ \A i \in 1..Len(output.log) : output.log[i].e \in {"call", "auth", "upload"}

\* the PDF and the first attachment were uploaded, the second attachment was
\* answered succeeded = false, and the call threw
C33_Witness ==
    /\ input.fn = "docClient" /\ output.system = "gopro" /\ output.uploads = 1
    /\ FilesOf(1) = 3 /\ Cardinality(UploadsOf(1)) = 3
    /\ output.log[Len(output.log)].outcome = "rejected"
    /\ output.results = <<"threw">>

\* the PDF was refused and neither attachment was uploaded
C33_WitnessFirstRefused ==
    /\ input.fn = "docClient" /\ output.system = "gopro" /\ output.uploads = 1
    /\ FilesOf(1) = 3 /\ Cardinality(UploadsOf(1)) = 1
    /\ output.results = <<"threw">>


\* ---- the signed pair ----

\* verifyWebhookSignature has judged a pair of timestamp and body that is not
\* the pair the signature was made for
OtherPairVerified ==
    /\ input.fn = "verifyWebhookSignature" /\ output # None
    /\ input.tamper \in {"body", "timestamp", "split"}

\* C34: a signature valid for one pair of timestamp and body is not valid for
\* a different pair, including a pair whose concatenation is the same string
\* with the split point moved.
C34_SignatureBindsPair == OtherPairVerified => ~output.value

\* C34 (other strings): a signature is not valid for a pair whose
\* concatenation is a different string.
C34_SignatureBindsString ==
    (OtherPairVerified /\ input.tamper # "split") => ~output.value

\* a pair with the split moved was judged
C34_ReachedMovedSplit ==
    OtherPairVerified /\ input.tamper = "split" /\ output.path = "compared"


\* ---- where the case number came from ----

\* a webhook request whose audit entry has been built
Audited == Serving("webhook") /\ local # None /\ local.auditEntry # None

\* C35: the audit entry's case_number_source is 'custom_field' exactly when
\* the case number was taken from the ticket's custom field, and 'fallback'
\* exactly when it was synthesized as ZD-<ticket id>, for every field value.
C35_CaseNumberSource ==
    Audited =>
        local.auditEntry.destination.case_number_source
            = (IF DeclaredFieldValues # {} THEN "custom_field" ELSE "fallback")

\* C35 (other values): the source is named as stated for every field value
\* that does not itself start with "ZD-".
C35_CaseNumberSourceButZd ==
    (Audited /\ \A v \in DeclaredFieldValues : ~StartsWith(ValueText(v), <<"Z", "D", "-">>)) =>
        local.auditEntry.destination.case_number_source
            = (IF DeclaredFieldValues # {} THEN "custom_field" ELSE "fallback")

\* a ticket archived under a custom field value that starts with "ZD-"
C35_ReachedZdField ==
    /\ Audited /\ pc = "done"
    /\ local.auditEntry.destination.case_number = <<"Z", "D", "-", "2", "0", "2", "4">>


\* ---- audit persistence ----

\* C36: in the webhook flow audit persistence comes last and is best-effort:
\* a put is attempted only after the archive upload succeeded, no other call
\* follows a put, and a failing put leaves the 200 success answer as it is.
C36_AuditLastAndBestEffort ==
    (Serving("webhook") /\ local # None /\ local.tenantConfig # None) =>
        /\ \A i \in CallsOp("put") :
              /\ \E j \in CallsOp("uploadDocument") : j < i
              /\ \A k \in 1..Len(local.failed) : local.failed[k] \in {"getUsersMany", "put"}
              /\ \A j \in (i + 1)..Len(calls) : calls[j].op = "put"
        /\ (pc = "done" /\ \E k \in 1..Len(local.failed) : local.failed[k] = "put") =>
              /\ response.status = 200 /\ response.body.success
              /\ response = WebhookArchived(local)

\* the first put failed, nothing was stored, and the answer is the 200
C36_Witness ==
    /\ Serving("webhook") /\ pc = "done" /\ local.failed = <<"put">>
    /\ Len(audit) = 0 /\ Cardinality(CallsOp("put")) = 1 /\ response.status = 200

\* the second put failed after the first was stored, and the answer is the 200
C36_WitnessSecondPut ==
    /\ Serving("webhook") /\ pc = "done" /\ local.failed = <<"put">>
    /\ Len(audit) = 1 /\ Cardinality(CallsOp("put")) = 2 /\ response.status = 200


\* ---- the limit of the audit query ----

\* the query was answered
Limited == input.fn = "auditLimit" /\ output # None

\* the limit parameter is the decimal text of a number from 1 to 100
LimitWithin(param) ==
    /\ param.t = "str" /\ Len(param.v) >= 1 /\ AllDigits(param.v)
    /\ DecVal(param.v) >= 1 /\ DecVal(param.v) <= 100

\* C37: for every value of the limit parameter, negative and non-numeric
\* ones included, the audit query returns at most 100 entries, and at most
\* limit entries when 1 <= limit <= 100.
C37_AuditQueryLimit ==
    Limited =>
        /\ output.count <= 100
        /\ LimitWithin(input.limit) => output.count <= DecVal(input.limit.v)

\* C37 (limits that are not negative): the bounds hold for every limit
\* parameter whose number is not below zero, and for those without a number.
C37_AuditQueryLimitNotNegative ==
    (Limited /\ (ParseInt10(IF Falsy(input.limit) THEN DEFAULT_LIMIT ELSE input.limit.v) = NaN
                 \/ ParseInt10(IF Falsy(input.limit) THEN DEFAULT_LIMIT
                               ELSE input.limit.v).v >= 0)) =>
        /\ output.count <= 100
        /\ LimitWithin(input.limit) => output.count <= DecVal(input.limit.v)

\* a query with limit=5000 over 150 stored entries was cut at 100
C37_ReachedCut ==
    /\ Limited /\ input.matching = 150 /\ input.limit = Str(<<"5", "0", "0", "0">>)
    /\ output.count = 100


\* ---- the logger's level ----

\* a logger was created
Logging == input.fn = "createLogger" /\ output.minLevel # None

\* the level LOG_LEVEL configures: its name, info when it names no level
ConfiguredLevel ==
    IF input.env.LOG_LEVEL # Undefined /\ input.env.LOG_LEVEL.v \in LevelNames
    THEN input.env.LOG_LEVEL.v ELSE "info"

\* every message was emitted exactly when its level is at or above the
\* configured one
EmittedByLevel ==
    \A i \in 1..Len(output.logged) :
        output.logged[i].emitted <=>
            LOG_LEVELS[output.logged[i].level] >= LOG_LEVELS[ConfiguredLevel]

\* C40: createLogger emits a message exactly when its level is at or above
\* the configured LOG_LEVEL in the order debug < info < warn < error; with
\* LOG_LEVEL=debug debug messages are emitted, and an unknown level name
\* behaves as info.
C40_EmittedAtOrAboveLevel == Logging => EmittedByLevel

\* C40 (but debug and inherited names): the same, for every LOG_LEVEL other
\* than debug and the names LOG_LEVELS inherits.
C40_EmittedAtOrAboveLevelButDebug ==
    (Logging /\ (input.env.LOG_LEVEL = Undefined
                 \/ input.env.LOG_LEVEL.v \notin {"debug"} \cup InheritedNames)) =>
        EmittedByLevel

\* with LOG_LEVEL=debug a debug message was logged
C40_ReachedDebug ==
    /\ Logging /\ input.env.LOG_LEVEL = Str("debug")
    /\ \E i \in 1..Len(output.logged) : output.logged[i].level = "debug"


\* ---- wrapping styled runs ----

\* the runs were wrapped
Wrapped == input.fn = "wrapStyledRuns" /\ output # None

RECURSIVE Flat(_)
\* the members of a sequence of sequences, in order
Flat(seqs) == IF seqs = <<>> THEN <<>> ELSE Head(seqs) \o Flat(Tail(seqs))

\* the segments of all returned lines, in order
Segments == Flat(output.lines)

\* the non-empty parts of the runs, in order, each with the flags of its run
StyledParts ==
    Flat([r \in 1..Len(input.runs) |->
            SelectSeq([k \in 1..Len(splitSpaces(input.runs[r].text)) |->
                          [text |-> splitSpaces(input.runs[r].text)[k],
                           bold |-> input.runs[r].bold, italic |-> input.runs[r].italic]],
                      LAMBDA part : part.text # <<>>)])

\* C39: wrapStyledRuns loses nothing: the segments of all returned lines,
\* joined in order, are the runs' texts joined; every segment keeps the
\* bold/italic flags of its run; no returned line is without a segment; and
\* a line break is only placed before a non-blank word.
C39_WrapLosesNothing ==
    Wrapped =>
        /\ Flat([k \in 1..Len(Segments) |-> Segments[k].text])
              = Flat([r \in 1..Len(input.runs) |-> input.runs[r].text])
        /\ SelectSeq(Segments, LAMBDA segment : segment.text # <<>>) = StyledParts
        /\ \A l \in 1..Len(output.lines) : Len(output.lines[l]) > 0
        /\ \A l \in 2..Len(output.lines) : Trim(output.lines[l][1].text) # <<>>

\* two runs of different styles were wrapped into several lines, a stretch
\* of spaces staying at the end of a line
C39_Witness ==
    /\ Wrapped /\ Len(input.runs) = 2 /\ input.runs[1].bold # input.runs[2].bold
    /\ Len(output.lines) >= 3
    /\ \E l \in 1..(Len(output.lines) - 1) :
          Trim(output.lines[l][Len(output.lines[l])].text) = <<>>


\* ---- decoding entities ----

\* the place of the ';' that ends the entity beginning at i, or 0
EntityEnd(text, i) ==
    LET stop == {j \in (i + 1)..Len(text) : ~(IsAlnum(text[j]) \/ text[j] \in {"#", "_"})}
        j == IF stop = {} THEN 0 ELSE CHOOSE m \in stop : \A n \in stop : m <= n
    IN  IF i <= Len(text) /\ text[i] = "&" /\ j > i + 1 /\ text[j] = ";" THEN j ELSE 0

\* what the table gives for an entity, a space for one it does not hold
Decoded(entity) ==
    IF \E k \in 1..Len(Entities) : Entities[k][1] = entity
    THEN Entities[CHOOSE k \in 1..Len(Entities) : Entities[k][1] = entity][2]
    ELSE <<" ">>

RECURSIVE DecodedOnce(_)
\* the text with each of its entities decoded, once, where it stands
DecodedOnce(text) ==
    IF Len(text) = 0 THEN text
    ELSE IF EntityEnd(text, 1) > 0
    THEN Decoded(SubSeq(text, 1, EntityEnd(text, 1)))
         \o DecodedOnce(SubSeq(text, EntityEnd(text, 1) + 1, Len(text)))
    ELSE <<text[1]>> \o DecodedOnce(Tail(text))

\* a decoded '&' of the text stands before what reads on as an entity
Rejoins(text) ==
    \E i \in 1..(Len(text) - 4) :
        /\ SubSeq(text, i, i + 4) = <<"&", "a", "m", "p", ";">>
        /\ EntityEnd(<<"&">> \o SubSeq(text, i + 5, Len(text)), 1) > 0

\* the runs of the scanned markup, by block and place
ScannedRuns ==
    {p \in (1..Len(output.blocks)) \X (1..MaxTokens + 1) : p[2] <= Len(output.blocks[p[1]].runs)}

\* C38: entity decoding in parseHtmlToBlocks decodes each entity of the
\* input exactly once: what decoding one entity produced is never joined
\* with the text after it and decoded again ('&amp;lt;' gives '&lt;'), and
\* every entity outside the table becomes a single space.
C38_EntitiesDecodedOnce ==
    Parsed("entities") =>
        \A p \in ScannedRuns :
            output.blocks[p[1]].runs[p[2]].text
                = collapseSpace(DecodedOnce(scanBlocks(input.html.v)[p[1]].runs[p[2]].text))

\* C38 (no '&amp;' before what reads on as an entity): the same for the
\* runs in which no '&amp;' stands before word characters and a ';'.
C38_EntitiesDecodedOnceButRejoined ==
    Parsed("entities") =>
        \A p \in ScannedRuns :
            ~Rejoins(scanBlocks(input.html.v)[p[1]].runs[p[2]].text) =>
                output.blocks[p[1]].runs[p[2]].text
                    = collapseSpace(DecodedOnce(scanBlocks(input.html.v)[p[1]].runs[p[2]].text))

\* '&amp;lt;' was parsed, and an entity outside the table
C38_ReachedAmpLt ==
    /\ Parsed("entities") /\ input.tokens = <<"&amp;", "lt;", "<b>", "&bogus;">>
    /\ Len(output.blocks) = 1 /\ Len(output.blocks[1].runs) = 2

====
